---- MODULE Spec2Model ----
(***************************************************************************)
(* A model of fortpy's code-element hierarchy (src/fortpy/elements.py):    *)
(* the Module container with its line index, boundary detection and       *)
(* offset-shift propagation, the ownership chain with its cached          *)
(* full_name, the docstring list, pickling support and the call-graph     *)
(* query Executable.changed.                                               *)
(*                                                                         *)
(* Conventions.  Element identities are strings ("M" is the module).      *)
(* A Python None that stands for an object or a name is the string        *)
(* "None"; an optional integer is a set ({} is None, {v} is v).  A text   *)
(* is the sequence of its lines as str.split("\n") yields them, each line *)
(* a record of its length and whether it holds the word "contains"; the   *)
(* empty string is the empty sequence.  A dotted or %-separated name is    *)
(* the sequence of its components.                                         *)
(***************************************************************************)
EXTENDS Integers, Sequences, FiniteSets, TLC

VARIABLES
    name,            \* CodeElement.name of every object
    parent,          \* CodeElement.parent: an identity, "registry" or "None"
    kind,            \* the class: "module", "type", "exec" or "member"
    offsets,         \* start, end, docstart, docend of every element
    types,           \* owner -> the owner's types dict (key -> element)
    executables,     \* owner -> the owner's executables dict
    members,         \* owner -> the owner's members dict
    _full_name,      \* the cached full name, <<>> when None
    _module,         \* the cached module, "None" when not yet looked up
    docstring,       \* element -> its list of DocElements
    groups,          \* element -> its groups dict (name -> DocGroup)
    _tests,          \* element -> the tests cache
    dependencies,    \* executable -> its Dependency edges in iteration order
    _assignments,    \* executable -> its list of assignment targets
    walk,            \* the changed query in progress: its call stack and checked list
    modules,         \* the registry's modules dict (lower-case name -> module)
    incomplete,      \* Executable.incomplete / CustomType.incomplete
    paramorder,      \* executable -> Executable.paramorder
    _parameters,     \* executable -> Executable._parameters (key -> parameter name)
    refstring,       \* Module.refstring
    _lines,          \* Module._lines
    _chars,          \* Module._chars
    _contains_index, \* Module._contains_index
    changed,         \* Module.changed
    written,         \* element -> the DocElements handed to overwrite_docs, in order
    modifiers,       \* element -> CodeElement.modifiers
    __index,         \* Serializer.__index: {} for None, else {the dict path -> time}
    index_json,      \* the index.json file of the cache directory
    last,            \* the last call: its arguments, result and the values before it
    nops             \* number of calls made so far

vars == <<name, parent, kind, offsets, types, executables, members, _full_name,
          _module, docstring, groups, _tests, dependencies, _assignments, walk,
          modules, incomplete, paramorder, _parameters,
          refstring, _lines, _chars, _contains_index, changed, written,
          modifiers, __index, index_json, last, nops>>

treeVars == <<name, parent, kind, types, executables, members, _full_name, _module>>
docVars == <<docstring, groups, _tests, written>>
callVars == <<dependencies, _assignments, walk>>
sideVars == <<modules, incomplete, paramorder, _parameters>>
textVars == <<refstring, changed>>
indexVars == <<_lines, _chars, _contains_index>>
cacheVars == <<__index, index_json>>

None == "None"
Registry == "registry"
NoCall == [op |-> "none"]
\* No changed query is in progress.
NoWalk == [status |-> "idle"]

\* Number of calls explored from an initial state.
MaxOps == 2
\* Magnitude of the character-count change of an edit.
MaxShift == 3
\* Columns at which edits are placed.
Columns == {0, 2}
\* Docstring deltas handed to update_elements.
DocDeltas == {0, 2}

Range(f) == {f[k] : k \in DOMAIN f}
Min(S) == CHOOSE x \in S : \A y \in S : x <= y
Max(S) == CHOOSE x \in S : \A y \in S : x >= y
\* str.lower on the names in use.
Lower(s) ==
    CASE s = "A" -> "a" [] s = "B" -> "b" [] s = "C" -> "c" [] s = "D" -> "d"
      [] s = "M" -> "m" [] s = "X" -> "x" [] s = "Y" -> "y"
      [] s = "Testing" -> "testing" [] OTHER -> s

EmptyDict == [k \in {} |-> None]
DictSet(d, k, v) == [x \in DOMAIN d \cup {k} |-> IF x = k THEN v ELSE d[x]]
DictDel(d, k) == [x \in DOMAIN d \ {k} |-> d[x]]

\* Serializer.__init__ over a cache directory without an index file.
NoIndexFile == [state |-> "missing", version |-> {}, index |-> EmptyDict]
CacheInit == __index = {} /\ index_json = NoIndexFile

\* The state of a freshly parsed module that no call has touched: it is the
\* registry's only module, nothing is incomplete, no parameter is declared.
SideInit ==
    /\ modules = [k \in {Lower(name["M"])} |-> "M"]
    /\ incomplete = [e \in DOMAIN name |-> FALSE]
    /\ paramorder = [e \in DOMAIN name |-> <<>>]
    /\ _parameters = [e \in DOMAIN name |-> EmptyDict]
    /\ modifiers = [e \in DOMAIN name |-> <<>>]
    /\ CacheInit

(***************************************************************************)
(* Python list indexing: negative indices count from the end, anything    *)
(* outside -len .. len-1 raises IndexError.                                *)
(***************************************************************************)
PyHas(s, i) == -Len(s) <= i /\ i < Len(s)
PyGet(s, i) == IF i >= 0 THEN s[i + 1] ELSE s[Len(s) + i + 1]

(***************************************************************************)
(* Span and section index                                                  *)
(***************************************************************************)
Line(n, k) == [len |-> n, kw |-> k]

RECURSIVE SumLens(_, _)
SumLens(ls, i) == IF i = 0 THEN 0 ELSE SumLens(ls, i - 1) + ls[i].len + 1

\* The running totals linenum stores in _chars: every line counts its
\* terminator, except the last one.
Totals(ls) ==
    [i \in 1..Len(ls) |-> SumLens(ls, i) - (IF i = Len(ls) THEN 1 ELSE 0)]

\* The lazy indexing at the head of linenum: _lines and _chars after it.
Indexed ==
    IF Len(_lines) = 0 /\ refstring # <<>>
    THEN [lines |-> refstring, chars |-> Totals(refstring)]
    ELSE [lines |-> _lines, chars |-> _chars]

\* linenum's answer on an index: [i, chars[i] - index] for the first total
\* >= index, the bare integer -1 when there is none (list = FALSE), and
\* [-1, -1] when no line is indexed.
LinenumOn(ix, index) ==
    IF Len(ix.lines) > 0
    THEN LET hits == {i \in 1..Len(ix.chars) : index <= ix.chars[i]}
         IN  IF hits = {}
             THEN [list |-> FALSE, line |-> -1, offset |-> -1]
             ELSE [list |-> TRUE, line |-> Min(hits) - 1,
                   offset |-> ix.chars[Min(hits)] - index]
    ELSE [list |-> TRUE, line |-> -1, offset |-> -1]

\* charindex: _chars[line - 1] + column, IndexError outside the list.
CharindexOn(ix, line, column) ==
    IF PyHas(ix.chars, line - 1)
    THEN [raised |-> FALSE, value |-> PyGet(ix.chars, line - 1) + column]
    ELSE [raised |-> TRUE, value |-> 0]

\* CodeElement.embedded: the parent is not a Module.
Embedded(e) == ~(parent[e] \in DOMAIN kind /\ kind[parent[e]] = "module")

\* Lines scanned for the keyword after the last type.
ContainsWindow == 10

\* Module.contains_index on an index: the cached value when there is one,
\* else the scan from the line of the last non-embedded type's end.
ContainsIndexOn(ix, cached) ==
    IF cached # {}
    THEN [raised |-> FALSE, value |-> CHOOSE v \in cached : TRUE]
    ELSE LET ends == {offsets[t].end : t \in {x \in Range(types["M"]) : ~Embedded(x)}}
             max_t == Max({0} \cup ends)
             ln == LinenumOn(ix, max_t)
             max_i == IF max_t > 0 THEN ContainsWindow ELSE Len(ix.lines)
             stops == {i \in 0..(max_i - 1) :
                          \/ ~PyHas(ix.lines, ln.line + i)
                          \/ PyGet(ix.lines, ln.line + i).kw}
         IN  IF ~ln.list
             THEN [raised |-> TRUE, value |-> 0]
             ELSE IF stops = {}
             THEN [raised |-> FALSE, value |-> Len(ix.lines) - 1]
             ELSE IF ~PyHas(ix.lines, ln.line + Min(stops))
             THEN [raised |-> TRUE, value |-> 0]
             ELSE [raised |-> FALSE, value |-> ln.line + Min(stops)]

(***************************************************************************)
(* Offset-shift propagation                                                *)
(***************************************************************************)
\* CodeElement.absstart; a member has no docstart attribute.
AbsStartOf(k, o) == IF k # "member" /\ o.docstart > 0 THEN o.docstart ELSE o.start
AbsStart(e) == AbsStartOf(kind[e], offsets[e])

\* A charfix that also stretches the docstring's end.
ElementCharfixStretch(o, charcount) ==
    [start |-> o.start + charcount, docstart |-> o.docstart + charcount,
     end |-> o.end + charcount, docend |-> o.docend + charcount + 1]

\* Module._element_charfix
ElementCharfix(o, charcount) ==
    [start |-> o.start + charcount, docstart |-> o.docstart + charcount,
     end |-> o.end + charcount, docend |-> o.docend + charcount]

\* Module._update_char_check of an element of kind k at the offsets o.
UpdateCharCheck(k, o, target, docdelta) ==
    IF docdelta # 0
    THEN IF o.docstart <= target /\ o.docend >= target - docdelta
         THEN TRUE
         ELSE AbsStartOf(k, o) > target
    ELSE AbsStartOf(k, o) > target

\* The loops of update_elements visit a collection key by key: an element
\* the dict holds under n keys is checked, and shifted, n times.
RECURSIVE CharfixVisits(_, _, _, _, _, _)
CharfixVisits(n, k, o, target, charcount, docdelta) ==
    IF n = 0 THEN o
    ELSE CharfixVisits(n - 1, k,
                       IF UpdateCharCheck(k, o, target, docdelta)
                       THEN ElementCharfix(o, charcount) ELSE o,
                       target, charcount, docdelta)

KeysOf(coll, e) == {key \in DOMAIN coll : coll[key] = e}

\* The shift of the members loop: start and end only.
MemberShift(o, charcount) ==
    [o EXCEPT !.start = o.start + charcount, !.end = o.end + charcount]

\* A boundary test that counts the boundary line itself as declarations.
DeclarationsEditInclusive(line, icontains) == line <= icontains

\* if line < self.contains_index: the edit lies in the declarations section.
DeclarationsEdit(line, icontains) == line < icontains

\* Module.update_elements
UpdateElements(line, column, charcount, docdelta) ==
    LET ix == Indexed
        ci == CharindexOn(ix, line, column)
        target == ci.value + charcount
        cx == ContainsIndexOn(ix, _contains_index)
        ok == ~ci.raised /\ ~cx.raised
        call == [op |-> "update_elements", line |-> line, column |-> column,
                 charcount |-> charcount, docdelta |-> docdelta,
                 raised |-> ~ok,
                 index |-> IF ci.raised THEN 0 ELSE ci.value,
                 target |-> IF ci.raised THEN 0 ELSE target,
                 icontains |-> IF ok THEN cx.value ELSE 0,
                 pre |-> offsets, pre_dependencies |-> dependencies]
    IN  /\ _lines' = ix.lines
        /\ _chars' = ix.chars
        /\ last' = call
        /\ IF ~ok
           THEN UNCHANGED <<offsets, _contains_index>>
           ELSE IF DeclarationsEdit(line, cx.value)
           THEN /\ offsets' =
                     [e \in DOMAIN offsets |->
                        IF e \in Range(types["M"])
                        THEN CharfixVisits(Cardinality(KeysOf(types["M"], e)), kind[e],
                                           offsets[e], target, charcount, docdelta)
                        ELSE IF e \in Range(members["M"]) /\ offsets[e].start > target
                        THEN MemberShift(offsets[e], charcount)
                        ELSE offsets[e]]
                /\ _contains_index' = {}
           ELSE /\ offsets' =
                     [e \in DOMAIN offsets |->
                        IF e \in Range(executables["M"])
                        THEN CharfixVisits(Cardinality(KeysOf(executables["M"], e)),
                                           kind[e], offsets[e], target, charcount,
                                           docdelta)
                        ELSE offsets[e]]
                /\ _contains_index' = {cx.value}
        /\ UNCHANGED <<treeVars, docVars, callVars, sideVars, modifiers, cacheVars, textVars>>

(***************************************************************************)
(* The shift specification: a parsed module whose text is not edited      *)
(* under it, and a sequence of update_elements calls.                     *)
(***************************************************************************)
ShiftText ==
    << Line(8, FALSE), Line(6, FALSE), Line(4, FALSE), Line(4, FALSE),
       Line(4, FALSE), Line(8, FALSE), Line(8, TRUE), Line(12, FALSE),
       Line(8, FALSE), Line(8, FALSE), Line(8, FALSE), Line(4, FALSE),
       Line(14, FALSE), Line(10, FALSE) >>

LineStart(text, l) == SumLens(text, l)
LineEnd(text, l) == SumLens(text, l) + text[l + 1].len
Span(text, first, final) ==
    [start |-> LineStart(text, first), end |-> LineEnd(text, final),
     docstart |-> 0, docend |-> 0]
DocSpan(text, doc, first, final) ==
    [start |-> LineStart(text, first), end |-> LineEnd(text, final),
     docstart |-> LineStart(text, doc), docend |-> LineEnd(text, doc)]

\* A Dependency edge with the callee's name as written, and Dependency.name.
Dep(callee) == [_name |-> callee]

\* Everything the shift specification leaves at its value after construction.
ShiftFrame ==
    /\ _full_name = [e \in DOMAIN name |-> <<>>]
    /\ _module = [e \in DOMAIN name |-> None]
    /\ docstring = [e \in DOMAIN name |-> <<>>]
    /\ groups = [e \in DOMAIN name |-> EmptyDict]
    /\ _tests = [e \in DOMAIN name |-> [cached |-> FALSE, value |-> <<>>]]
    /\ written = [e \in DOMAIN name |-> <<>>]
    /\ refstring = ShiftText
    /\ _lines = <<>>
    /\ _chars = <<>>
    /\ _contains_index = {}
    /\ changed = FALSE
    /\ last = NoCall
    /\ nops = 0

\* Type T on lines 1-5, the boundary on line 6, subroutine S on lines 7-12
\* calling foo and bar.
InitExample ==
    /\ name = [e \in {"M", "T", "S"} |-> IF e = "M" THEN "m" ELSE IF e = "T" THEN "t" ELSE "s"]
    /\ kind = [e \in {"M", "T", "S"} |->
                 IF e = "M" THEN "module" ELSE IF e = "T" THEN "type" ELSE "exec"]
    /\ parent = [e \in {"M", "T", "S"} |-> IF e = "M" THEN None ELSE "M"]
    /\ offsets = [e \in {"M", "T", "S"} |->
                    IF e = "T" THEN Span(ShiftText, 1, 5)
                    ELSE IF e = "S" THEN Span(ShiftText, 7, 12)
                    ELSE Span(ShiftText, 0, 13)]
    /\ types = [o \in {"M", "T", "S"} |-> IF o = "M" THEN [k \in {"t"} |-> "T"] ELSE EmptyDict]
    /\ executables = [o \in {"M", "T", "S"} |->
                        IF o = "M" THEN [k \in {"s"} |-> "S"] ELSE EmptyDict]
    /\ members = [o \in {"M", "T", "S"} |-> EmptyDict]
    /\ dependencies = [e \in {"M", "T", "S"} |->
                         IF e = "S" THEN <<Dep("foo"), Dep("bar")>> ELSE <<>>]
    /\ _assignments = [e \in {"M", "T", "S"} |-> <<>>]
    /\ walk = NoWalk
    /\ SideInit
    /\ ShiftFrame

\* Member V on line 1, type T on lines 3-5 under a docstring on line 2, the
\* boundary on line 6, subroutine S on lines 7-9 and function F on lines
\* 11-12 under a docstring on line 10.
RichIds == {"M", "V", "T", "S", "F"}
InitRich ==
    /\ name = [e \in RichIds |->
                 CASE e = "M" -> "m" [] e = "V" -> "v" [] e = "T" -> "t"
                   [] e = "S" -> "s" [] e = "F" -> "f"]
    /\ kind = [e \in RichIds |->
                 CASE e = "M" -> "module" [] e = "V" -> "member" [] e = "T" -> "type"
                   [] e = "S" -> "exec" [] e = "F" -> "exec"]
    /\ parent = [e \in RichIds |-> IF e = "M" THEN None ELSE "M"]
    /\ offsets = [e \in RichIds |->
                    CASE e = "M" -> Span(ShiftText, 0, 13)
                      [] e = "V" -> Span(ShiftText, 1, 1)
                      [] e = "T" -> DocSpan(ShiftText, 2, 3, 5)
                      [] e = "S" -> Span(ShiftText, 7, 9)
                      [] e = "F" -> DocSpan(ShiftText, 10, 11, 12)]
    /\ types = [o \in RichIds |-> IF o = "M" THEN [k \in {"t"} |-> "T"] ELSE EmptyDict]
    /\ executables = [o \in RichIds |->
                        IF o = "M" THEN [k \in {"s", "f"} |-> IF k = "s" THEN "S" ELSE "F"]
                        ELSE EmptyDict]
    /\ members = [o \in RichIds |-> IF o = "M" THEN [k \in {"v"} |-> "V"] ELSE EmptyDict]
    /\ dependencies = [e \in RichIds |->
                         IF e = "S" THEN <<Dep("foo"), Dep("bar")>> ELSE <<>>]
    /\ _assignments = [e \in RichIds |-> <<>>]
    /\ walk = NoWalk
    /\ SideInit
    /\ ShiftFrame

InitShift == InitExample \/ InitRich

Edit ==
    /\ nops < MaxOps
    /\ nops' = nops + 1
    /\ \E line \in 0..(Len(refstring) - 1), column \in Columns,
          charcount \in {-MaxShift, 0, MaxShift}, docdelta \in DocDeltas :
          UpdateElements(line, column, charcount, docdelta)

NextShift == Edit

SpecShift == InitShift /\ [][NextShift]_vars

TopLevel == Range(types["M"]) \cup Range(members["M"]) \cup Range(executables["M"])
Updated == last.op = "update_elements" /\ ~last.raised
\* The keys of the dependencies dict: the lower-case callee names.
DepKeys(deps) == {Lower(deps[i]._name) : i \in 1..Len(deps)}

\* C1: after update_elements(line, column, C) with docdelta = 0 and
\* T = charindex(line, column) + C, every top-level type, member and
\* executable whose effective start was > T has start' = start + C, and every
\* one whose start was <= T keeps all its offsets.
C1_ShiftMonotonicity ==
    (Updated /\ last.docdelta = 0) =>
        \A e \in TopLevel :
            /\ AbsStartOf(kind[e], last.pre[e]) > last.target
                  => offsets[e].start = last.pre[e].start + last.charcount
            /\ last.pre[e].start <= last.target => offsets[e] = last.pre[e]

\* C2: an insertion of C characters at a position inside the span of a
\* top-level executable S after the boundary leaves every type's offsets
\* unchanged, increases S.end by C and keeps the keys of S.dependencies.
C2_InsertInsideExecutable ==
    \A s \in Range(executables["M"]) :
        ( /\ Updated
          /\ last.charcount > 0
          /\ last.line >= last.icontains
          /\ last.pre[s].start <= last.index
          /\ last.index <= last.pre[s].end )
        => /\ \A t \in Range(types["M"]) : offsets[t] = last.pre[t]
           /\ offsets[s].end = last.pre[s].end + last.charcount
           /\ DepKeys(dependencies[s]) = DepKeys(last.pre_dependencies[s])

\* C3: update_elements with charcount = 0, whatever line, column and docdelta,
\* leaves start, end, docstart and docend of every element unchanged.
C3_ZeroCharcountChangesNothing ==
    (last.op = "update_elements" /\ last.charcount = 0) => offsets = last.pre

\* A zero-length edit in the declarations with a docstring delta, with a type
\* after the target that the shift loop selects.
C3_Witness ==
    /\ Updated
    /\ last.charcount = 0
    /\ last.docdelta # 0
    /\ last.line < last.icontains
    /\ \E t \in Range(types["M"]) : AbsStartOf("type", last.pre[t]) > last.target

(***************************************************************************)
(* Ownership chain: full_name, renaming and re-parenting                   *)
(***************************************************************************)
\* ".".join(list)
RECURSIVE JoinDot(_)
JoinDot(s) == IF Len(s) = 1 THEN s[1] ELSE s[1] \o "." \o JoinDot(Tail(s))

\* The list full_name collects: the element's own name, then the name of
\* every non-None parent up the chain.
RECURSIVE Ancestors(_)
Ancestors(e) ==
    <<name[e]>> \o (IF parent[e] = None THEN <<>> ELSE Ancestors(parent[e]))

\* CodeElement.full_name: the value the property returns.
FullName(e) ==
    IF _full_name[e] = None THEN JoinDot(Ancestors(e)) ELSE _full_name[e]

\* Reading the property stores the value in _full_name.
ReadFullName(e) ==
    /\ _full_name' = [_full_name EXCEPT ![e] = FullName(e)]
    /\ last' = [op |-> "full_name", element |-> e, ret |-> FullName(e)]
    /\ UNCHANGED <<name, parent, kind, types, executables, members, _module,
                   offsets, docVars, callVars, sideVars, modifiers, cacheVars, textVars, indexVars>>

\* Executable.update_name and CustomType.update_name.  The new key is stored
\* before the old one is deleted; a missing old key raises KeyError between
\* the two, a parent without the collection raises AttributeError before
\* both.
UpdateNameOutcome(e, new) ==
    LET p == parent[e]
        isType == kind[e] = "type"
        noattr == p = None \/ p = Registry \/ (isType /\ kind[p] = "type")
        coll == IF isType THEN types[p] ELSE executables[p]
        added == DictSet(coll, new, e)
        missing == name[e] \notin DOMAIN added
        after == IF missing THEN added ELSE DictDel(added, name[e])
        differs == new # name[e]
        stored == differs /\ ~noattr
    IN  [raised |-> differs /\ (noattr \/ missing),
         types |-> IF stored /\ isType THEN [types EXCEPT ![p] = after] ELSE types,
         executables |->
             IF stored /\ ~isType THEN [executables EXCEPT ![p] = after] ELSE executables,
         name |-> IF stored /\ ~missing THEN [name EXCEPT ![e] = new] ELSE name]

UpdateName(e, new) ==
    LET r == UpdateNameOutcome(e, new)
    IN  /\ last' = [op |-> "update_name", element |-> e, new |-> new,
                    raised |-> r.raised, pre_name |-> name, pre_parent |-> parent,
                    pre_types |-> types, pre_executables |-> executables]
        /\ types' = r.types
        /\ executables' = r.executables
        /\ name' = r.name
        /\ UNCHANGED <<parent, kind, members, _full_name, _module, offsets,
                       docVars, callVars, sideVars, modifiers, cacheVars, textVars,
                       indexVars>>

\* The first key of a dict, in its iteration order, among those of S.
FirstKey(ord, S) == ord[Min({i \in 1..Len(ord) : ord[i] \in S})]

Inside(e, c) ==
    offsets[e].start > offsets[c].start /\ offsets[e].end < offsets[c].end

\* Module.find_embedded_parent over the module's current types T and
\* executables X: the first type that strictly contains the element, else
\* the first such executable, else None.
FindEmbeddedParent(e, T, X, ord) ==
    LET inT == {k \in DOMAIN T : Inside(e, T[k])}
        inX == {k \in DOMAIN X : Inside(e, X[k])}
    IN  IF inT # {} THEN T[FirstKey(ord, inT)]
        ELSE IF inX # {} THEN X[FirstKey(ord, inX)]
        ELSE None

\* The loop of Module.update_embedded over the keys listed before it starts;
\* moved lists, in order, each element given a new parent, that parent and
\* the values of the module's two collections at that moment.
\* new_parent.types does not exist on a CustomType: the assignment raises
\* AttributeError after element.parent was set and before the deletion.
RECURSIVE EmbedPass(_, _, _, _)
EmbedPass(keys, attribute, ord, st) ==
    IF keys = <<>> \/ st.raised THEN st
    ELSE LET key == Head(keys)
             coll == IF attribute = "types" THEN st.types["M"] ELSE st.executables["M"]
             element == coll[key]
             np == FindEmbeddedParent(element, st.types["M"], st.executables["M"], ord)
             move == [element |-> element, into |-> np,
                      top |-> Range(st.types["M"]) \cup Range(st.executables["M"])]
         IN  IF np = None THEN EmbedPass(Tail(keys), attribute, ord, st)
             ELSE IF attribute = "types" /\ kind[np] = "type"
             THEN [st EXCEPT !.parent[element] = np, !.raised = TRUE,
                             !.moved = Append(@, move)]
             ELSE EmbedPass(Tail(keys), attribute, ord,
                    [parent |-> [st.parent EXCEPT ![element] = np],
                     moved |-> Append(st.moved, move),
                     types |->
                        IF attribute = "types"
                        THEN [st.types EXCEPT ![np] = DictSet(@, key, element),
                                              !["M"] = DictDel(@, key)]
                        ELSE st.types,
                     executables |->
                        IF attribute = "types"
                        THEN st.executables
                        ELSE [st.executables EXCEPT ![np] = DictSet(@, key, element),
                                                    !["M"] = DictDel(@, key)],
                     raised |-> FALSE])

\* The sequence of the keys of d in the iteration order ord.
KeysIn(ord, d) == SelectSeq(ord, LAMBDA k : k \in DOMAIN d)

\* The iteration orders of the module's dicts: every arrangement of the keys.
Orders ==
    LET K == DOMAIN types["M"] \cup DOMAIN executables["M"]
    IN  {s \in [1..Cardinality(K) -> K] : \A i, j \in DOMAIN s : i # j => s[i] # s[j]}

\* Module.update_embedded
UpdateEmbedded(attribute, ord) ==
    LET coll == IF attribute = "types" THEN types["M"] ELSE executables["M"]
        st == EmbedPass(KeysIn(ord, coll), attribute, ord,
                        [parent |-> parent, types |-> types, moved |-> <<>>,
                         executables |-> executables, raised |-> FALSE])
    IN  /\ parent' = st.parent
        /\ types' = st.types
        /\ executables' = st.executables
        /\ last' = [op |-> "update_embedded", attribute |-> attribute,
                    raised |-> st.raised, pre_name |-> name, pre_parent |-> parent,
                    pre_types |-> types, pre_executables |-> executables,
                    moved |-> st.moved]
        /\ UNCHANGED <<name, kind, members, _full_name, _module, offsets,
                       docVars, callVars, sideVars, modifiers, cacheVars, textVars, indexVars>>

(***************************************************************************)
(* The names specification: a module M with three top-level elements A, B *)
(* and C as the parser leaves them before the embedding pass, then reads  *)
(* of full_name, renames and embedding passes.                             *)
(***************************************************************************)
\* Number of calls explored from an initial state of the names specification.
MaxNameOps == 3

NameIds == {"M", "A", "B", "C"}
At(first, final) == [start |-> first, end |-> final, docstart |-> 0, docend |-> 0]

\* Nested A > B > C; B in A and C apart; B and C both in A; all apart.
NameLayouts ==
    { [A |-> At(10, 100), B |-> At(20, 50), C |-> At(30, 40)],
      [A |-> At(10, 50), B |-> At(20, 30), C |-> At(60, 90)],
      [A |-> At(10, 100), B |-> At(20, 40), C |-> At(50, 70)],
      [A |-> At(10, 30), B |-> At(40, 60), C |-> At(70, 90)] }

NewNames == {"a", "d", "B"}

InitNames ==
    /\ \E bname \in {"b", "B"} :
         name = [e \in NameIds |->
                   CASE e = "M" -> "m" [] e = "A" -> "a" [] e = "B" -> bname
                     [] e = "C" -> "c"]
    /\ \E k \in [{"A", "B", "C"} -> {"type", "exec"}] :
         /\ kind = [e \in NameIds |-> IF e = "M" THEN "module" ELSE k[e]]
         /\ types = [o \in NameIds |->
                       IF o = "M"
                       THEN [key \in {Lower(x) : x \in {y \in {"A", "B", "C"} : k[y] = "type"}}
                               |-> CHOOSE x \in {"A", "B", "C"} : Lower(x) = key]
                       ELSE EmptyDict]
         /\ executables = [o \in NameIds |->
                       IF o = "M"
                       THEN [key \in {Lower(x) : x \in {y \in {"A", "B", "C"} : k[y] = "exec"}}
                               |-> CHOOSE x \in {"A", "B", "C"} : Lower(x) = key]
                       ELSE EmptyDict]
    /\ parent = [e \in NameIds |-> IF e = "M" THEN None ELSE "M"]
    /\ \E lay \in NameLayouts :
         offsets = [e \in NameIds |-> IF e = "M" THEN At(0, 120) ELSE lay[e]]
    /\ members = [o \in NameIds |-> EmptyDict]
    /\ _full_name = [e \in NameIds |-> None]
    /\ _module = [e \in NameIds |-> None]
    /\ docstring = [e \in NameIds |-> <<>>]
    /\ groups = [e \in NameIds |-> EmptyDict]
    /\ _tests = [e \in NameIds |-> [cached |-> FALSE, value |-> <<>>]]
    /\ written = [e \in NameIds |-> <<>>]
    /\ dependencies = [e \in NameIds |-> <<>>]
    /\ _assignments = [e \in NameIds |-> <<>>]
    /\ walk = NoWalk
    /\ SideInit
    /\ refstring = <<>>
    /\ _lines = <<>>
    /\ _chars = <<>>
    /\ _contains_index = {}
    /\ changed = FALSE
    /\ last = NoCall
    /\ nops = 0

NameStep == nops < MaxNameOps /\ nops' = nops + 1

ReadName == NameStep /\ \E e \in DOMAIN name : ReadFullName(e)

Rename ==
    /\ NameStep
    /\ \E e \in {x \in DOMAIN kind : kind[x] \in {"type", "exec"}}, new \in NewNames :
          UpdateName(e, new)

Embed ==
    /\ NameStep
    /\ \E attribute \in {"types", "executables"}, ord \in Orders :
          UpdateEmbedded(attribute, ord)

NextNames == ReadName \/ Rename \/ Embed

SpecNames == InitNames /\ [][NextNames]_vars

\* C4: full_name(E) = full_name(parent(E)) + "." + name(E) when E has a
\* parent, and name(E) when it has none: ancestors first, own name last.
C4_FullNameParentFirst ==
    \A e \in DOMAIN name :
        FullName(e) = IF parent[e] = None
                      THEN name[e]
                      ELSE FullName(parent[e]) \o "." \o name[e]

\* The names along the current ownership chain, root first.
RECURSIVE Reversed(_)
Reversed(s) == IF s = <<>> THEN <<>> ELSE Reversed(Tail(s)) \o <<Head(s)>>

\* C5: after any sequence of update_name and update_embedded calls, also when
\* full_name was read before them, full_name of every element is the dot-joined
\* current names along its current ownership chain (in either direction).
C5_FullNameFollowsChain ==
    \A e \in DOMAIN name :
        FullName(e) \in {JoinDot(Ancestors(e)), JoinDot(Reversed(Ancestors(e)))}

\* C7: after update_embedded(collection), every element that was in that
\* top-level collection and strictly inside a type or executable of the
\* module is out of the top-level collection, in the corresponding nested
\* collection of its new owner, and has that owner as parent.
C7_EmbeddedIsReparented ==
    last.op = "update_embedded" =>
        LET pre == IF last.attribute = "types" THEN last.pre_types ELSE last.pre_executables
            now == IF last.attribute = "types" THEN types ELSE executables
            containers == Range(last.pre_types["M"]) \cup Range(last.pre_executables["M"])
        IN  \A e \in Range(pre["M"]) :
                (\E c \in containers : Inside(e, c)) =>
                    /\ e \notin Range(now["M"])
                    /\ parent[e] \in containers
                    /\ Inside(e, parent[e])
                    /\ e \in Range(now[parent[e]])

(***************************************************************************)
(* Docstrings, the tests accessor and pickling                             *)
(***************************************************************************)
NoGroup == [held |-> "none", name |-> None]
GroupName(n) == [held |-> "str", name |-> n]
GroupObject(n) == [held |-> "obj", name |-> n]

\* DocElement.pointsto: the lower-cased name attribute, None without one.
PointsTo(d) == IF d.attr_name = None THEN None ELSE Lower(d.attr_name)

\* An overwrite that compares the name attributes as written.
OverwriteDocsRawName(list, doc) ==
    LET same == {i \in 1..Len(list) :
                    list[i].doctype = doc.doctype /\ list[i].attr_name = doc.attr_name}
    IN  IF same = {} THEN Append(list, doc)
        ELSE Append(SubSeq(list, 1, Min(same) - 1)
                      \o SubSeq(list, Min(same) + 1, Len(list)), doc)

\* CodeElement.overwrite_docs on the docstring list: the first entry with the
\* same doctype and pointsto is deleted, then the new one is appended.
OverwriteDocsList(list, doc) ==
    LET same == {i \in 1..Len(list) :
                    list[i].doctype = doc.doctype /\ PointsTo(list[i]) = PointsTo(doc)}
    IN  IF same = {} THEN Append(list, doc)
        ELSE Append(SubSeq(list, 1, Min(same) - 1)
                      \o SubSeq(list, Min(same) + 1, Len(list)), doc)

OverwriteDocs(e, doc) ==
    /\ docstring' = [docstring EXCEPT ![e] = OverwriteDocsList(@, doc)]
    /\ written' = [written EXCEPT ![e] = Append(@, doc)]
    /\ last' = [op |-> "overwrite_docs", element |-> e, doc |-> doc]
    /\ UNCHANGED <<treeVars, offsets, groups, _tests, callVars, sideVars, modifiers, cacheVars, textVars, indexVars>>

\* docel.group == docgrp.name: true of a group held as that name; a DocGroup
\* object or None never equals the name.
GroupIsName(g, n) == g.held = "str" /\ g.name = n

\* The order in which the groups dict is walked.
GroupOrder == <<"g", "h">>

\* The list CodeElement.tests builds: for every group whose purpose is
\* "testing" in any case, the docstring entries whose group equals its name.
RECURSIVE TestsOver(_, _)
TestsOver(e, gkeys) ==
    IF gkeys = <<>> THEN <<>>
    ELSE LET docgrp == groups[e][Head(gkeys)]
         IN  (IF docgrp.purpose # "absent" /\ Lower(docgrp.purpose) = "testing"
              THEN SelectSeq(docstring[e], LAMBDA d : GroupIsName(d.group, docgrp.name))
              ELSE <<>>) \o TestsOver(e, Tail(gkeys))

\* CodeElement.tests: the value the property returns.
Tests(e) ==
    IF _tests[e].cached THEN _tests[e].value
    ELSE TestsOver(e, SelectSeq(GroupOrder, LAMBDA g : g \in DOMAIN groups[e]))

ReadTests(e) ==
    /\ _tests' = [_tests EXCEPT ![e] = [cached |-> TRUE, value |-> Tests(e)]]
    /\ last' = [op |-> "tests", element |-> e, ret |-> Tests(e)]
    /\ UNCHANGED <<treeVars, offsets, docstring, groups, written, callVars, sideVars, modifiers, cacheVars,
                   textVars, indexVars>>

\* CodeElement.module: the nearest Module at or above the element.
RECURSIVE ModuleWalk(_)
ModuleWalk(root) ==
    IF root = None THEN None
    ELSE IF kind[root] = "module" THEN root
    ELSE ModuleWalk(parent[root])

ModuleOf(e) == IF _module[e] = None THEN ModuleWalk(e) ELSE _module[e]

ReadModule(e) ==
    /\ _module' = [_module EXCEPT ![e] = ModuleOf(e)]
    /\ last' = [op |-> "module", element |-> e, ret |-> ModuleOf(e)]
    /\ UNCHANGED <<name, parent, kind, types, executables, members, _full_name,
                   offsets, docVars, callVars, sideVars, modifiers, cacheVars, textVars, indexVars>>

\* DocElement.__getstate__ then __setstate__: group is dropped; the name of a
\* group held as an object is kept in _parent_name, a group held as a string
\* leaves None there.
PickledDoc(d) ==
    [d EXCEPT !.group = NoGroup,
              !._parent_name = IF d.group.held = "obj" THEN d.group.name ELSE None]

\* CodeElement.unpickle_docs on one DocElement of element e.
UnpickledDoc(e, d) ==
    IF d._parent_name # None /\ d._parent_name \in DOMAIN groups[e]
    THEN [d EXCEPT !.group = GroupObject(d._parent_name)]
    ELSE d

\* The objects whose unpickle hands e its parent: a Module or Executable
\* walks its members, executables and types, a CustomType its members and
\* executables, an Executable also its dependency edges and its parameters.
Holders(e) ==
    {o \in DOMAIN kind :
        \/ kind[o] \in {"module", "exec"} /\ e \in Range(types[o])
        \/ kind[o] \in {"module", "exec", "type"}
             /\ e \in Range(executables[o]) \cup Range(members[o])
        \/ kind[o] = "exec" /\ e \in Range(dependencies[o]) \cup Range(_parameters[o])}

RECURSIVE ReachedFrom(_)
ReachedFrom(S) ==
    LET more == {e \in DOMAIN kind : Holders(e) \cap S # {}}
    IN  IF more \subseteq S THEN S ELSE ReachedFrom(S \cup more)

\* The ways the unpickle calls can leave the parents of the objects of S:
\* each gets one of the reached objects that hold it.
RECURSIVE ParentChoices(_, _)
ParentChoices(S, reached) ==
    IF S = {} THEN {EmptyDict}
    ELSE LET e == CHOOSE x \in S : TRUE
         IN  {DictSet(p, e, h) : p \in ParentChoices(S \ {e}, reached),
                                 h \in Holders(e) \cap reached}

\* What load_module does with a cache hit: pickle's __getstate__ and
\* __setstate__ of every object, then Module.unpickle(registry).
UnpickleModule ==
    LET reached == ReachedFrom({"M"})
        saved == reached \ {"M"}
    IN  /\ \E p \in ParentChoices(saved, reached) :
             /\ parent' = [e \in DOMAIN parent |->
                             IF e = "M" THEN Registry
                             ELSE IF e \in saved THEN p[e]
                             ELSE IF e = Registry THEN parent[e] ELSE None]
        /\ _tests' = [e \in DOMAIN _tests |-> [cached |-> FALSE, value |-> <<>>]]
        /\ _module' = [e \in DOMAIN _module |-> None]
        /\ docstring' =
             [e \in DOMAIN docstring |->
                [i \in 1..Len(docstring[e]) |->
                    IF e \in saved
                    THEN UnpickledDoc(e, PickledDoc(docstring[e][i]))
                    ELSE PickledDoc(docstring[e][i])]]
        /\ UNCHANGED <<name, kind, types, executables, members, _full_name, offsets,
                       groups, written, callVars, sideVars, modifiers, textVars,
                       indexVars>>

\* Serializer.load_module of a path the index lists with a current time.
LoadModule ==
    /\ UnpickleModule
    /\ last' = [op |-> "load_module",
                pre_full_name |-> [e \in DOMAIN name |-> FullName(e)],
                pre_module |-> [e \in DOMAIN name |-> ModuleOf(e)],
                pre_tests |-> [e \in DOMAIN name |-> Tests(e)],
                pre_offsets |-> offsets]
    /\ UNCHANGED cacheVars

(***************************************************************************)
(* The docstring specification: a module M of the registry with a type T  *)
(* and a subroutine S, every docstring list empty, a group g on every     *)
(* element; then overwrite_docs calls, reads of the cached properties and *)
(* reloads through the serializer.                                         *)
(***************************************************************************)
\* Number of calls explored from an initial state of the docstring specification.
MaxDocOps == 3

DocIds == {Registry, "M", "T", "S"}
Documented == {"M", "S"}

\* The DocElements the docstring parser hands over.
NewDocs ==
    { [doctype |-> k.doctype, attr_name |-> k.attr_name, contents |-> k.contents,
       group |-> g, _parent_name |-> "absent"] :
         k \in { [doctype |-> "summary", attr_name |-> None, contents |-> "one"],
                 [doctype |-> "summary", attr_name |-> None, contents |-> "two"],
                 [doctype |-> "parameter", attr_name |-> "x", contents |-> "one"],
                 [doctype |-> "parameter", attr_name |-> "X", contents |-> "one"] },
         g \in {NoGroup, GroupName("g")} }

InitDocs ==
    /\ name = [e \in DocIds |->
                 CASE e = Registry -> "parser" [] e = "M" -> "m" [] e = "T" -> "t"
                   [] e = "S" -> "s"]
    /\ kind = [e \in DocIds |->
                 CASE e = Registry -> "registry" [] e = "M" -> "module"
                   [] e = "T" -> "type" [] e = "S" -> "exec"]
    /\ parent = [e \in DocIds |->
                   IF e = Registry THEN None ELSE IF e = "M" THEN Registry ELSE "M"]
    /\ offsets = [e \in DocIds |-> At(0, 0)]
    /\ types = [o \in DocIds |-> IF o = "M" THEN [k \in {"t"} |-> "T"] ELSE EmptyDict]
    /\ executables = [o \in DocIds |-> IF o = "M" THEN [k \in {"s"} |-> "S"] ELSE EmptyDict]
    /\ members = [o \in DocIds |-> EmptyDict]
    /\ _full_name = [e \in DocIds |-> None]
    /\ _module = [e \in DocIds |-> None]
    /\ docstring = [e \in DocIds |-> <<>>]
    /\ \E purpose \in {"testing", "Testing", "other", "absent"} :
         groups = [e \in DocIds |->
                     IF e = Registry THEN EmptyDict
                     ELSE [g \in {"g"} |-> [name |-> g, purpose |-> purpose]]]
    /\ _tests = [e \in DocIds |-> [cached |-> FALSE, value |-> <<>>]]
    /\ written = [e \in DocIds |-> <<>>]
    /\ dependencies = [e \in DocIds |-> <<>>]
    /\ _assignments = [e \in DocIds |-> <<>>]
    /\ walk = NoWalk
    /\ SideInit
    /\ refstring = <<>>
    /\ _lines = <<>>
    /\ _chars = <<>>
    /\ _contains_index = {}
    /\ changed = FALSE
    /\ last = NoCall
    /\ nops = 0

DocStep == nops < MaxDocOps /\ nops' = nops + 1

Document == DocStep /\ \E e \in Documented, d \in NewDocs : OverwriteDocs(e, d)
TestsRead == DocStep /\ \E e \in Documented : ReadTests(e)
NameRead == DocStep /\ \E e \in Documented : ReadFullName(e)
ModuleRead == DocStep /\ \E e \in Documented : ReadModule(e)
Reload == DocStep /\ LoadModule

NextDocs == Document \/ TestsRead \/ NameRead \/ ModuleRead \/ Reload

SpecDocs == InitDocs /\ [][NextDocs]_vars

DocKey(d) == <<d.doctype, PointsTo(d)>>
\* The last DocElement handed to overwrite_docs of e with the key k.
LastWritten(e, k) ==
    written[e][Max({i \in 1..Len(written[e]) : DocKey(written[e][i]) = k})]
\* What identifies a DocElement across a reload: the parsed fragment.
Fragment(d) == [doctype |-> d.doctype, attr_name |-> d.attr_name, contents |-> d.contents]
Fragments(list) == [i \in 1..Len(list) |-> Fragment(list[i])]

\* C6: after any sequence of overwrite_docs calls on a list that started
\* empty, the list holds exactly one entry for every (doctype, pointsto)
\* inserted, none for any other, and that entry is the last DocElement
\* inserted with the pair.
C6_OneDocPerKey ==
    \A e \in Documented :
        LET list == docstring[e]
        IN  /\ \A i, j \in 1..Len(list) : DocKey(list[i]) = DocKey(list[j]) => i = j
            /\ \A i \in 1..Len(list) :
                  /\ \E w \in 1..Len(written[e]) : DocKey(written[e][w]) = DocKey(list[i])
                  /\ Fragment(list[i]) = Fragment(LastWritten(e, DocKey(list[i])))
            /\ \A w \in 1..Len(written[e]) :
                  \E i \in 1..Len(list) : DocKey(list[i]) = DocKey(written[e][w])

\* Two DocElements with the same doctype and pointsto but different name
\* attributes were inserted one after the other; one entry is left, the second.
C6_Witness ==
    \E e \in Documented :
        /\ Len(written[e]) = 2
        /\ DocKey(written[e][1]) = DocKey(written[e][2])
        /\ written[e][1].attr_name # written[e][2].attr_name
        /\ Len(docstring[e]) = 1
        /\ docstring[e][1] = written[e][2]

\* C8: a reload (snapshot, restore, unpickle with the registry) gives every
\* element the full_name, the module and the tests it had before.
C8_ReloadRoundTrip ==
    last.op = "load_module" =>
        \A e \in DOMAIN name \ {Registry} :
            /\ FullName(e) = last.pre_full_name[e]
            /\ ModuleOf(e) = last.pre_module[e]
            /\ Fragments(Tests(e)) = Fragments(last.pre_tests[e])

(***************************************************************************)
(* The call graph: Executable.changed                                      *)
(***************************************************************************)
\* Dependency.external_name: the lower-case name of the module that owns the
\* calling executable, a dot, the lower-case callee.
ExternalName(e, d) == Lower(name[ModuleOf(e)]) \o "." \o Lower(d._name)

\* The registry's get_executable(fully qualified lower-case name): the
\* executable of a loaded module, None when there is none.
GetExecutable(fq) ==
    LET found == {k \in DOMAIN executables["M"] : Lower(name["M"]) \o "." \o k = fq}
    IN  IF found = {} THEN None ELSE executables["M"][CHOOSE k \in found : TRUE]

\* A search that compares the whole assignment target with the symbol.
AssignsSymbolWhole(e, symbol) ==
    /\ symbol # ""
    /\ \E i \in 1..Len(_assignments[e]) :
          Len(_assignments[e][i]) = 1 /\ Lower(_assignments[e][i][1]) = symbol

\* Executable._get_assignments_in(filterlist, symbol) == True: the symbol is
\* not empty and equals the lower-cased part before the first % of an
\* assignment target (the symbol itself is compared as given).
AssignsSymbol(e, symbol) ==
    /\ symbol # ""
    /\ \E i \in 1..Len(_assignments[e]) : Lower(Head(_assignments[e][i])) = symbol

\* A visited test that looks only at the first entry of checked.
InListFirst(x, list) == list # <<>> /\ list[1] = x

\* x in list
InList(x, list) == \E i \in 1..Len(list) : list[i] = x

\* "{}.{}".format(self.module.name, self.name).lower()
MyName(e) == Lower(name[ModuleOf(e)]) \o "." \o Lower(name[e])

\* Executable.changed(symbol, checked): the value returned, the checked list
\* as the call leaves it, and the executables whose assignments were searched.
\* A call that falls off the end of the loop, or finds its name in checked,
\* returns None; the caller tests the callee's result with != "".
RECURSIVE ChangedFrom(_, _, _), ChangedLoop(_, _, _, _)
ChangedFrom(e, symbol, st) ==
    IF ~InList(MyName(e), st.checked)
    THEN IF AssignsSymbol(e, symbol)
         THEN [ret |-> MyName(e), checked |-> st.checked,
               examined |-> Append(st.examined, e)]
         ELSE ChangedLoop(e, symbol, dependencies[e],
                          [checked |-> Append(st.checked, MyName(e)),
                           examined |-> Append(st.examined, e)])
    ELSE [ret |-> None, checked |-> st.checked, examined |-> st.examined]

ChangedLoop(e, symbol, deps, st) ==
    IF deps = <<>>
    THEN [ret |-> None, checked |-> st.checked, examined |-> st.examined]
    ELSE LET ext == ExternalName(e, Head(deps))
             iexec == GetExecutable(ext)
             r == ChangedFrom(iexec, symbol, st)
         IN  IF iexec # None
             THEN IF r.ret # ""
                  THEN [ret |-> ext, checked |-> r.checked, examined |-> r.examined]
                  ELSE ChangedLoop(e, symbol, Tail(deps),
                                   [checked |-> Append(r.checked, ext),
                                    examined |-> r.examined])
             ELSE ChangedLoop(e, symbol, Tail(deps),
                              [checked |-> Append(st.checked, ext),
                               examined |-> st.examined])

\* Executable.changed(symbol) as a caller makes it: checked = None.
Changed(e, symbol) ==
    LET r == ChangedFrom(e, symbol, [checked |-> <<>>, examined |-> <<>>])
    IN  /\ last' = [op |-> "changed", element |-> e, symbol |-> symbol,
                    ret |-> r.ret, checked |-> r.checked, examined |-> r.examined]
        /\ UNCHANGED <<treeVars, offsets, docVars, callVars, sideVars, modifiers, cacheVars, textVars, indexVars, nops>>

(***************************************************************************)
(* The call-graph specification: a module M of the registry with the      *)
(* executables a, B and c, every call list and assignment list drawn from *)
(* a few shapes (calls of itself, of each other, of an unknown z), then   *)
(* changed queries.                                                        *)
(***************************************************************************)
CallIds == {Registry, "M", "A", "B", "C"}
Callers == {"A", "B", "C"}

CallLists ==
    { <<>>, <<Dep("a")>>, <<Dep("B")>>, <<Dep("z"), Dep("c")>> }
AssignmentLists ==
    { <<>>, << <<"x", "y">> >>, << <<"w">>, <<"X", "y">> >> }
Symbols == {"x", "w"}

InitCalls ==
    /\ name = [e \in CallIds |->
                 CASE e = Registry -> "parser" [] e = "M" -> "M" [] e = "A" -> "a"
                   [] e = "B" -> "B" [] e = "C" -> "c"]
    /\ kind = [e \in CallIds |->
                 CASE e = Registry -> "registry" [] e = "M" -> "module" [] OTHER -> "exec"]
    /\ parent = [e \in CallIds |->
                   IF e = Registry THEN None ELSE IF e = "M" THEN Registry ELSE "M"]
    /\ offsets = [e \in CallIds |-> At(0, 0)]
    /\ types = [o \in CallIds |-> EmptyDict]
    /\ executables = [o \in CallIds |->
                        IF o = "M"
                        THEN [k \in {"a", "b", "c"} |->
                                CASE k = "a" -> "A" [] k = "b" -> "B" [] k = "c" -> "C"]
                        ELSE EmptyDict]
    /\ members = [o \in CallIds |-> EmptyDict]
    /\ _full_name = [e \in CallIds |-> None]
    /\ _module = [e \in CallIds |-> None]
    /\ docstring = [e \in CallIds |-> <<>>]
    /\ groups = [e \in CallIds |-> EmptyDict]
    /\ _tests = [e \in CallIds |-> [cached |-> FALSE, value |-> <<>>]]
    /\ written = [e \in CallIds |-> <<>>]
    /\ \E calls \in [Callers -> CallLists] :
         dependencies = [e \in CallIds |-> IF e \in Callers THEN calls[e] ELSE <<>>]
    /\ \E assigns \in [Callers -> AssignmentLists] :
         _assignments = [e \in CallIds |-> IF e \in Callers THEN assigns[e] ELSE <<>>]
    /\ walk = NoWalk
    /\ SideInit
    /\ refstring = <<>>
    /\ _lines = <<>>
    /\ _chars = <<>>
    /\ _contains_index = {}
    /\ changed = FALSE
    /\ last = NoCall
    /\ nops = 0

Query == \E e \in Callers, symbol \in Symbols : Changed(e, symbol)

NextCalls == Query

SpecCalls == InitCalls /\ [][NextCalls]_vars

\* C9: changed("x") on an executable with an assignment target that begins
\* with x followed by % returns the lower-case module.executable name of
\* that executable.
C9_ChangedMatchesPrefix ==
    ( /\ last.op = "changed"
      /\ last.symbol = "x"
      /\ \E i \in 1..Len(_assignments[last.element]) :
            /\ Len(_assignments[last.element][i]) > 1
            /\ _assignments[last.element][i][1] = "x" )
    => last.ret = Lower(name["M"]) \o "." \o Lower(name[last.element])

\* changed("x") was asked of B, which assigns x%y and calls something: it
\* answered "m.b".
C9_Witness ==
    /\ last.op = "changed"
    /\ last.symbol = "x"
    /\ last.element = "B"
    /\ _assignments["B"] = << <<"x", "y">> >>
    /\ dependencies["B"] # <<>>
    /\ last.ret = "m.b"

\* The executables changed can reach from e through resolvable dependencies.
Callees(x) ==
    {GetExecutable(ExternalName(x, dependencies[x][i])) : i \in 1..Len(dependencies[x])}
       \ {None}
RECURSIVE Reachable(_)
Reachable(S) ==
    LET more == UNION {Callees(x) : x \in S}
    IN  IF more \subseteq S THEN S ELSE Reachable(S \cup more)

\* C10: changed(symbol) returns the fully-qualified name of an executable,
\* this one or one reachable through resolvable dependencies, that assigns
\* the symbol, and a falsy result (None) when none of them assigns it.
C10_ChangedFindsMutator ==
    last.op = "changed" =>
        LET mutators == {x \in Reachable({last.element}) : AssignsSymbol(x, last.symbol)}
        IN  IF mutators = {}
            THEN last.ret = None
            ELSE last.ret \in {MyName(x) : x \in mutators}

(***************************************************************************)
(* Executable.changed call by call: the Python call stack of one query,   *)
(* one frame per invocation, with the checked list every invocation       *)
(* shares.  A frame is at "enter" (the invocation starts), at "loop" (it  *)
(* is about to take its next dependency) or at "await" (the invocation it *)
(* made for the head of deps has not been answered yet).                   *)
(***************************************************************************)
\* Number of queries explored from an initial state of the call-stack specification.
MaxQueries == 2
\* Assignment searches after which the call-stack specification stops descending.
MaxExamined == 5

Frame(e, pc, deps) == [element |-> e, pc |-> pc, deps |-> deps]
Top == walk.frames[Len(walk.frames)]
Below == SubSeq(walk.frames, 1, Len(walk.frames) - 1)

\* return v: the frame is popped; the query is over when it was the last.
WalkReturn(w, v) ==
    IF Len(w.frames) = 1
    THEN [w EXCEPT !.status = "done", !.frames = <<>>, !.ret = v]
    ELSE [w EXCEPT !.frames = SubSeq(w.frames, 1, Len(w.frames) - 1), !.ret = v]

WalkFrame == UNCHANGED <<treeVars, offsets, docVars, dependencies, _assignments,
                         sideVars, modifiers, cacheVars, textVars, indexVars, last>>

\* A caller asks e.changed(symbol) with checked = None.
WalkBegin(e, symbol) ==
    /\ walk.status # "running"
    /\ nops < MaxQueries
    /\ nops' = nops + 1
    /\ walk' = [status |-> "running", element |-> e, symbol |-> symbol,
                frames |-> <<Frame(e, "enter", <<>>)>>,
                checked |-> <<>>, examined |-> <<>>, ret |-> None]
    /\ WalkFrame

\* The head of changed: the visited test, the search of the assignments and
\* the append of myname.
WalkEnter ==
    /\ walk.status = "running"
    /\ Top.pc = "enter"
    /\ Len(walk.examined) < MaxExamined
    /\ LET e == Top.element
           searched == [walk EXCEPT !.examined = Append(@, e)]
       IN  walk' =
             IF InList(MyName(e), walk.checked) THEN WalkReturn(walk, None)
             ELSE IF AssignsSymbol(e, walk.symbol) THEN WalkReturn(searched, MyName(e))
             ELSE [searched EXCEPT
                     !.checked = Append(@, MyName(e)),
                     !.frames = Append(Below, Frame(e, "loop", dependencies[e]))]
    /\ UNCHANGED nops
    /\ WalkFrame

\* One turn of the dependency loop up to the recursive call.
WalkLoop ==
    /\ walk.status = "running"
    /\ Top.pc = "loop"
    /\ LET e == Top.element
       IN  walk' =
             IF Top.deps = <<>> THEN WalkReturn(walk, None)
             ELSE LET ext == ExternalName(e, Head(Top.deps))
                      iexec == GetExecutable(ext)
                  IN  IF iexec = None
                      THEN [walk EXCEPT
                              !.checked = Append(@, ext),
                              !.frames = Append(Below, Frame(e, "loop", Tail(Top.deps)))]
                      ELSE [walk EXCEPT
                              !.frames = Below \o <<Frame(e, "await", Top.deps),
                                                    Frame(iexec, "enter", <<>>)>>]
    /\ UNCHANGED nops
    /\ WalkFrame

\* The recursive call has answered: its value is compared with "".
WalkResume ==
    /\ walk.status = "running"
    /\ Top.pc = "await"
    /\ LET e == Top.element
           ext == ExternalName(e, Head(Top.deps))
       IN  walk' =
             IF walk.ret # "" THEN WalkReturn(walk, ext)
             ELSE [walk EXCEPT
                     !.checked = Append(@, ext),
                     !.frames = Append(Below, Frame(e, "loop", Tail(Top.deps)))]
    /\ UNCHANGED nops
    /\ WalkFrame

Ask == \E e \in Callers, symbol \in Symbols : WalkBegin(e, symbol)

NextWalk == Ask \/ WalkEnter \/ WalkLoop \/ WalkResume

\* Python runs a call to its end: a query in progress keeps taking steps.
SpecWalk ==
    InitCalls /\ [][NextWalk]_vars /\ WF_vars(WalkEnter \/ WalkLoop \/ WalkResume)

NoDuplicates(list) == \A i, j \in 1..Len(list) : list[i] = list[j] => i = j

\* C11: every changed query ends, and during a query the assignments of no
\* executable are searched twice.
C11_ChangedTerminates ==
    /\ [](walk.status # "idle" => NoDuplicates(walk.examined))
    /\ (walk.status = "running") ~> (walk.status = "done")

\* A query on a that ran through the cycle a -> B -> a has ended, each of the
\* two searched once.
C11_Witness ==
    /\ walk.status = "done"
    /\ walk.element = "A"
    /\ dependencies["A"] = <<Dep("B")>>
    /\ dependencies["B"] = <<Dep("a")>>
    /\ walk.examined = <<"A", "B">>
    /\ InList("m.a", walk.checked)

(***************************************************************************)
(* Module.completions                                                      *)
(***************************************************************************)
\* The characters of the keys and symbols in use.
Chars(s) ==
    CASE s = "foo" -> <<"f", "o", "o">>
      [] s = "format" -> <<"f", "o", "r", "m", "a", "t">>
      [] s = "fold" -> <<"f", "o", "l", "d">>
      [] s = "force" -> <<"f", "o", "r", "c", "e">>
      [] s = "bar" -> <<"b", "a", "r">>
      [] s = "fo" -> <<"f", "o">>
      [] s = "or" -> <<"o", "r">>
      [] s = "x" -> <<"x">>
      [] OTHER -> <<>>

\* Python's "symbol in ekey" on strings.
IsSubstring(symbol, ekey) ==
    LET a == Chars(symbol)
        b == Chars(ekey)
    IN  \E i \in 0..(Len(b) - Len(a)) : SubSeq(b, i + 1, i + Len(a)) = a

\* The order in which a dict hands out its keys (the order of insertion).
KeyOrder == <<"foo", "format", "fold", "force", "bar">>

\* Module.collection(attribute) as the sequence of keys a for loop sees.
Collection(m, attribute) ==
    LET d == CASE attribute = "members" -> members[m]
               [] attribute = "types" -> types[m]
               [] attribute = "executables" -> executables[m]
    IN  SelectSeq(KeyOrder, LAMBDA k : k \in DOMAIN d)

\* The first loop of completions: the keys of the collection that contain symbol.
OwnCompletions(m, symbol, attribute) ==
    SelectSeq(Collection(m, attribute), LAMBDA ekey : IsSubstring(symbol, ekey))

\* depkey in self.parent.modules
DependencyLoaded(depkey) == depkey \in DOMAIN modules

\* self.parent.modules[depkey]
DependencyModule(depkey) == modules[depkey]

RECURSIVE DependencyCompletions(_, _, _)
DependencyCompletions(deps, symbol, attribute) ==
    IF deps = <<>> THEN <<>>
    ELSE (IF DependencyLoaded(Head(deps))
          THEN OwnCompletions(DependencyModule(Head(deps)), symbol, attribute)
          ELSE <<>>) \o DependencyCompletions(Tail(deps), symbol, attribute)

\* Module.completions(symbol, attribute, recursive): the list returned.
CompletionsOf(m, symbol, attribute, recursive) ==
    OwnCompletions(m, symbol, attribute)
      \o (IF recursive THEN DependencyCompletions(dependencies[m], symbol, attribute)
          ELSE <<>>)

Completions(m, symbol, attribute, recursive) ==
    /\ last' = [op |-> "completions", module |-> m, symbol |-> symbol,
                attribute |-> attribute, recursive |-> recursive,
                ret |-> CompletionsOf(m, symbol, attribute, recursive)]
    /\ UNCHANGED <<treeVars, offsets, docVars, callVars, sideVars, modifiers, cacheVars, textVars, indexVars, nops>>

(***************************************************************************)
(* The completion specification: modules m (executables foo, format, bar) *)
(* and n (executables foo, fold; type force); m declares dependencies in  *)
(* both forms, on n and on a module q that is never loaded; n is loaded   *)
(* or not.                                                                 *)
(***************************************************************************)
CompIds == {Registry, "M", "N", "F", "G", "H", "P", "Q", "T"}
CompNames ==
    [e \in CompIds |->
       CASE e = Registry -> "parser" [] e = "M" -> "m" [] e = "N" -> "n"
         [] e = "F" -> "foo" [] e = "G" -> "format" [] e = "H" -> "bar"
         [] e = "P" -> "foo" [] e = "Q" -> "fold" [] e = "T" -> "force"]
ModuleDependencyLists ==
    { <<>>, <<"n">>, <<"n.foo">>, <<"q">>, <<"q", "n">>, <<"n.foo", "n.fold">> }
CompSymbols == {"fo", "or", "x"}
CompAttributes == {"executables", "types"}

InitComplete ==
    /\ name = CompNames
    /\ kind = [e \in CompIds |->
                 CASE e = Registry -> "registry" [] e \in {"M", "N"} -> "module"
                   [] e = "T" -> "type" [] OTHER -> "exec"]
    /\ parent = [e \in CompIds |->
                   CASE e = Registry -> None [] e \in {"M", "N"} -> Registry
                     [] e \in {"F", "G", "H"} -> "M" [] OTHER -> "N"]
    /\ offsets = [e \in CompIds |-> At(0, 0)]
    /\ types = [o \in CompIds |->
                  IF o = "N" THEN [k \in {"force"} |-> "T"] ELSE EmptyDict]
    /\ executables = [o \in CompIds |->
                        CASE o = "M" -> [k \in {"foo", "format", "bar"} |->
                                           CASE k = "foo" -> "F" [] k = "format" -> "G"
                                             [] k = "bar" -> "H"]
                          [] o = "N" -> [k \in {"foo", "fold"} |->
                                           IF k = "foo" THEN "P" ELSE "Q"]
                          [] OTHER -> EmptyDict]
    /\ members = [o \in CompIds |-> EmptyDict]
    /\ _full_name = [e \in CompIds |-> None]
    /\ _module = [e \in CompIds |-> None]
    /\ docstring = [e \in CompIds |-> <<>>]
    /\ groups = [e \in CompIds |-> EmptyDict]
    /\ _tests = [e \in CompIds |-> [cached |-> FALSE, value |-> <<>>]]
    /\ written = [e \in CompIds |-> <<>>]
    /\ \E deps \in ModuleDependencyLists :
         dependencies = [e \in CompIds |-> IF e = "M" THEN deps ELSE <<>>]
    /\ _assignments = [e \in CompIds |-> <<>>]
    /\ walk = NoWalk
    /\ \E loaded \in {{"m"}, {"m", "n"}} :
         modules = [k \in loaded |-> IF k = "m" THEN "M" ELSE "N"]
    /\ incomplete = [e \in CompIds |-> FALSE]
    /\ paramorder = [e \in CompIds |-> <<>>]
    /\ _parameters = [e \in CompIds |-> EmptyDict]
    /\ modifiers = [e \in CompIds |-> <<>>]
    /\ CacheInit
    /\ refstring = <<>>
    /\ _lines = <<>>
    /\ _chars = <<>>
    /\ _contains_index = {}
    /\ changed = FALSE
    /\ last = NoCall
    /\ nops = 0

Complete ==
    \E m \in {"M", "N"}, symbol \in CompSymbols, attribute \in CompAttributes,
       recursive \in BOOLEAN :
        Completions(m, symbol, attribute, recursive)

NextComplete == Complete

SpecComplete == InitComplete /\ [][NextComplete]_vars

\* The modules a declared dependency list names, by the part before the dot.
DeclaredModules(m) ==
    {k \in {"m", "n", "q"} :
        \E i \in 1..Len(dependencies[m]) :
            dependencies[m][i] = k
              \/ \E sym \in Range(KeyOrder) : dependencies[m][i] = k \o "." \o sym}

\* C12: completions returns the keys of the module's collection that contain
\* the symbol and, when recursive, those of every declared dependency module
\* that is loaded, whichever form the declaration has; nothing of a module
\* that is not loaded.
C12_CompletionsCoverDependencies ==
    last.op = "completions" =>
        LET matching(m) == Range(OwnCompletions(m, last.symbol, last.attribute))
            loaded == {modules[k] : k \in DeclaredModules(last.module) \cap DOMAIN modules}
        IN  Range(last.ret) =
              matching(last.module)
                \cup (IF last.recursive THEN UNION {matching(d) : d \in loaded} ELSE {})

(***************************************************************************)
(* Locating a position: Module.get_element and Decoratable.find_section    *)
(***************************************************************************)
\* The first loop of a get_element branch: the element of the collection
\* with the largest absstart among those that start at or before ichar and
\* beat the running maximum, which starts at 0; None when there is none.
LatestStart(coll, ichar) ==
    LET reached == {e \in coll : ichar >= AbsStart(e) /\ AbsStart(e) > 0}
    IN  IF reached = {} THEN None
        ELSE CHOOSE e \in reached : \A f \in reached : AbsStart(f) <= AbsStart(e)

\* The test after the loop: the position is before the end, or the element
\* is incomplete.
Claims(e, ichar) == e # None /\ (ichar <= offsets[e].end \/ incomplete[e])

\* The members loop: the first member, in dict order, whose span holds ichar.
MemberAt(ichar) ==
    LET hits == {v \in Range(members["M"]) :
                    ichar >= offsets[v].start /\ ichar <= offsets[v].end}
    IN  IF hits = {} THEN None
        ELSE CHOOSE v \in hits : \A w \in hits : offsets[v].start <= offsets[w].start

\* Module.get_element(line, column): the element returned.
ElementAt(line, ichar, icontains) ==
    IF line < icontains
    THEN LET t == LatestStart(Range(types["M"]), ichar)
         IN  IF Claims(t, ichar) THEN t
             ELSE IF MemberAt(ichar) # None THEN MemberAt(ichar)
             ELSE "M"
    ELSE LET x == LatestStart(Range(executables["M"]), ichar)
         IN  IF Claims(x, ichar) THEN x ELSE "M"

\* The call with its reads of the line index and of the boundary, which the
\* properties cache.
GetElement(line, column) ==
    LET ix == Indexed
        ci == CharindexOn(ix, line, column)
        cx == ContainsIndexOn(ix, _contains_index)
        ok == ~ci.raised /\ ~cx.raised
    IN  /\ _lines' = ix.lines
        /\ _chars' = ix.chars
        /\ _contains_index' = IF ok THEN {cx.value} ELSE _contains_index
        /\ last' = [op |-> "get_element", line |-> line, column |-> column,
                    raised |-> ~ok,
                    ichar |-> IF ci.raised THEN 0 ELSE ci.value,
                    icontains |-> IF ok THEN cx.value ELSE 0,
                    ret |-> IF ok THEN ElementAt(line, ci.value, cx.value) ELSE None]
        /\ UNCHANGED <<treeVars, offsets, docVars, callVars, sideVars, modifiers, cacheVars, textVars, nops>>

\* Length of the shortest signature, "type::b" and its line break.
SignatureWindow == 8

\* Decoratable.find_section(charindex) of element e: "signature", "body",
\* "docstring" or None.
SectionOf(o, charindex) ==
    IF charindex > o.docend /\ charindex - o.start < SignatureWindow THEN "signature"
    ELSE IF charindex >= o.start /\ charindex <= o.end THEN "body"
    ELSE IF charindex >= o.docstart /\ charindex <= o.docend THEN "docstring"
    ELSE None

FindSection(e, charindex) ==
    /\ last' = [op |-> "find_section", element |-> e, charindex |-> charindex,
                ret |-> SectionOf(offsets[e], charindex)]
    /\ UNCHANGED <<treeVars, offsets, docVars, callVars, sideVars, modifiers, cacheVars, textVars,
                   indexVars, nops>>

(***************************************************************************)
(* The locating specification: the text of the shift specification with a *)
(* type T that ends on line 3 and starts on line 0, on line 1 or on line  *)
(* 2 under a docstring on line 1, a member V on line 5, the boundary on   *)
(* line 6, subroutine S on lines 7-9, function F on lines 11-12 under a   *)
(* docstring on line 10; T and F complete or not.                          *)
(***************************************************************************)
TypeSpans == { Span(ShiftText, 0, 3), Span(ShiftText, 1, 3), DocSpan(ShiftText, 1, 2, 3) }

InitLocate ==
    /\ name = [e \in RichIds |->
                 CASE e = "M" -> "m" [] e = "V" -> "v" [] e = "T" -> "t"
                   [] e = "S" -> "s" [] e = "F" -> "f"]
    /\ kind = [e \in RichIds |->
                 CASE e = "M" -> "module" [] e = "V" -> "member" [] e = "T" -> "type"
                   [] e = "S" -> "exec" [] e = "F" -> "exec"]
    /\ parent = [e \in RichIds |-> IF e = "M" THEN None ELSE "M"]
    /\ \E tspan \in TypeSpans :
         offsets = [e \in RichIds |->
                      CASE e = "M" -> Span(ShiftText, 0, 13)
                        [] e = "V" -> Span(ShiftText, 5, 5)
                        [] e = "T" -> tspan
                        [] e = "S" -> Span(ShiftText, 7, 9)
                        [] e = "F" -> DocSpan(ShiftText, 10, 11, 12)]
    /\ types = [o \in RichIds |-> IF o = "M" THEN [k \in {"t"} |-> "T"] ELSE EmptyDict]
    /\ executables = [o \in RichIds |->
                        IF o = "M" THEN [k \in {"s", "f"} |-> IF k = "s" THEN "S" ELSE "F"]
                        ELSE EmptyDict]
    /\ members = [o \in RichIds |-> IF o = "M" THEN [k \in {"v"} |-> "V"] ELSE EmptyDict]
    /\ dependencies = [e \in RichIds |-> <<>>]
    /\ _assignments = [e \in RichIds |-> <<>>]
    /\ walk = NoWalk
    /\ modules = [k \in {"m"} |-> "M"]
    /\ \E open \in SUBSET {"T", "F"} : incomplete = [e \in RichIds |-> e \in open]
    /\ paramorder = [e \in RichIds |-> <<>>]
    /\ _parameters = [e \in RichIds |-> EmptyDict]
    /\ modifiers = [e \in RichIds |-> <<>>]
    /\ CacheInit
    /\ _full_name = [e \in RichIds |-> None]
    /\ _module = [e \in RichIds |-> None]
    /\ docstring = [e \in RichIds |-> <<>>]
    /\ groups = [e \in RichIds |-> EmptyDict]
    /\ _tests = [e \in RichIds |-> [cached |-> FALSE, value |-> <<>>]]
    /\ written = [e \in RichIds |-> <<>>]
    /\ refstring = ShiftText
    /\ _lines = <<>>
    /\ _chars = <<>>
    /\ _contains_index = {}
    /\ changed = FALSE
    /\ last = NoCall
    /\ nops = 0

Locate ==
    \E line \in 0..Len(refstring), column \in Columns : GetElement(line, column)

\* The offsets find_section is asked about: around every end of a span.
SectionOffsets(o) ==
    UNION {{x - 1, x, x + 1} : x \in {o.docstart, o.docend, o.start, o.start + SignatureWindow, o.end}}
       \cap Nat

Section ==
    \E e \in {"T", "S", "F"} : \E charindex \in SectionOffsets(offsets[e]) :
        FindSection(e, charindex)

NextLocate == Locate \/ Section

SpecLocate == InitLocate /\ [][NextLocate]_vars

\* The element that owns an offset: of those that start at or before it, the
\* one that starts last, if the offset is before its end or it is incomplete.
Owners(coll, ichar) ==
    {e \in coll :
        /\ AbsStart(e) <= ichar
        /\ \A f \in coll : AbsStart(f) <= ichar => AbsStart(f) <= AbsStart(e)
        /\ (ichar <= offsets[e].end \/ incomplete[e])}

\* C13: get_element returns the owner of the position: before the boundary
\* the owner among the types, else among the members, from the boundary on
\* the owner among the executables, and the Module when there is no owner.
C13_GetElementFindsOwner ==
    (last.op = "get_element" /\ ~last.raised) =>
        LET before == last.line < last.icontains
            first == Owners(IF before THEN Range(types["M"]) ELSE Range(executables["M"]),
                            last.ichar)
            second == IF before THEN Owners(Range(members["M"]), last.ichar) ELSE {}
        IN  IF first # {} THEN last.ret \in first
            ELSE IF second # {} THEN last.ret \in second
            ELSE last.ret = "M"

(***************************************************************************)
(* What a specification that never touches them leaves at the value the   *)
(* constructors give: the docstring side, the call side, the text side.   *)
(***************************************************************************)
QuietDocs ==
    /\ _full_name = [e \in DOMAIN name |-> None]
    /\ _module = [e \in DOMAIN name |-> None]
    /\ docstring = [e \in DOMAIN name |-> <<>>]
    /\ groups = [e \in DOMAIN name |-> EmptyDict]
    /\ _tests = [e \in DOMAIN name |-> [cached |-> FALSE, value |-> <<>>]]
    /\ written = [e \in DOMAIN name |-> <<>>]

QuietCalls ==
    /\ dependencies = [e \in DOMAIN name |-> <<>>]
    /\ _assignments = [e \in DOMAIN name |-> <<>>]
    /\ walk = NoWalk

QuietText ==
    /\ refstring = <<>>
    /\ _lines = <<>>
    /\ _chars = <<>>
    /\ _contains_index = {}
    /\ changed = FALSE

(***************************************************************************)
(* Parameter management: Executable.add_parameter, remove_parameter        *)
(***************************************************************************)
\* A ValueElement handed to add_parameter, by its name as written.
Parameter(n) == [name |-> n]

\* An append that looks for the name as written.
AddToOrderRaw(order, parameter) ==
    IF ~InList(parameter.name, order) THEN Append(order, Lower(parameter.name)) ELSE order

\* The paramorder half of add_parameter.
AddToOrder(order, parameter) ==
    IF ~InList(Lower(parameter.name), order)
    THEN Append(order, Lower(parameter.name))
    ELSE order

AddParameter(e, parameter) ==
    /\ paramorder' = [paramorder EXCEPT ![e] = AddToOrder(@, parameter)]
    /\ _parameters' = [_parameters EXCEPT ![e] = DictSet(@, Lower(parameter.name), parameter)]
    /\ last' = [op |-> "add_parameter", element |-> e, parameter |-> parameter,
                pre_paramorder |-> paramorder[e], pre_parameters |-> _parameters[e]]
    /\ UNCHANGED <<treeVars, offsets, docVars, callVars, modules, incomplete, modifiers, cacheVars,
                   textVars, indexVars>>

\* del self.paramorder[self.paramorder.index(parameter_name)]
DelFirst(order, x) ==
    LET i == Min({k \in 1..Len(order) : order[k] = x})
    IN  SubSeq(order, 1, i - 1) \o SubSeq(order, i + 1, Len(order))

RemoveParameter(e, parameter_name) ==
    /\ paramorder' = [paramorder EXCEPT ![e] =
                        IF InList(parameter_name, @) THEN DelFirst(@, parameter_name) ELSE @]
    /\ _parameters' = [_parameters EXCEPT ![e] =
                         IF parameter_name \in DOMAIN @ THEN DictDel(@, parameter_name) ELSE @]
    /\ last' = [op |-> "remove_parameter", element |-> e, parameter_name |-> parameter_name,
                pre_paramorder |-> paramorder[e], pre_parameters |-> _parameters[e]]
    /\ UNCHANGED <<treeVars, offsets, docVars, callVars, modules, incomplete, modifiers, cacheVars,
                   textVars, indexVars>>

(***************************************************************************)
(* The parameter specification: a module with the subroutines S and F,    *)
(* no parameter declared, then add_parameter and remove_parameter calls   *)
(* with names that differ in case.                                         *)
(***************************************************************************)
\* Number of calls explored from the initial state of the parameter specification.
MaxParamOps == 4

ParamIds == {"M", "S", "F"}
ParamNames == {"x", "X", "y"}

InitParams ==
    /\ name = [e \in ParamIds |-> CASE e = "M" -> "m" [] e = "S" -> "s" [] e = "F" -> "f"]
    /\ kind = [e \in ParamIds |-> IF e = "M" THEN "module" ELSE "exec"]
    /\ parent = [e \in ParamIds |-> IF e = "M" THEN None ELSE "M"]
    /\ offsets = [e \in ParamIds |-> At(0, 0)]
    /\ types = [o \in ParamIds |-> EmptyDict]
    /\ executables = [o \in ParamIds |->
                        IF o = "M" THEN [k \in {"s", "f"} |-> IF k = "s" THEN "S" ELSE "F"]
                        ELSE EmptyDict]
    /\ members = [o \in ParamIds |-> EmptyDict]
    /\ QuietDocs
    /\ QuietCalls
    /\ SideInit
    /\ QuietText
    /\ last = NoCall
    /\ nops = 0

ParamStep == nops < MaxParamOps /\ nops' = nops + 1

Declare ==
    ParamStep /\ \E e \in {"S", "F"}, n \in ParamNames : AddParameter(e, Parameter(n))
Undeclare ==
    ParamStep /\ \E e \in {"S", "F"}, n \in ParamNames : RemoveParameter(e, n)

NextParams == Declare \/ Undeclare

SpecParams == InitParams /\ [][NextParams]_vars

\* C14: paramorder has no duplicates and names exactly the keys of the
\* parameters mapping; adding a parameter whose lower-case name is present
\* leaves paramorder as it was; removing a name that is in neither changes
\* neither.
C14_ParamorderMatchesParameters ==
    /\ \A e \in DOMAIN paramorder :
          /\ NoDuplicates(paramorder[e])
          /\ Range(paramorder[e]) = DOMAIN _parameters[e]
          /\ Len(paramorder[e]) = Cardinality(DOMAIN _parameters[e])
    /\ ( /\ last.op = "add_parameter"
         /\ InList(Lower(last.parameter.name), last.pre_paramorder) )
       => paramorder[last.element] = last.pre_paramorder
    /\ ( /\ last.op = "remove_parameter"
         /\ ~InList(last.parameter_name, last.pre_paramorder) )
       => /\ paramorder[last.element] = last.pre_paramorder
          /\ _parameters[last.element] = last.pre_parameters

\* X was added to a subroutine that already has x and y: the order is still
\* x, y and the mapping holds the new object under x.
C14_Witness ==
    /\ last.op = "add_parameter"
    /\ last.parameter = Parameter("X")
    /\ last.pre_paramorder = <<"x", "y">>
    /\ paramorder[last.element] = <<"x", "y">>
    /\ _parameters[last.element]["x"] = Parameter("X")

\* The keys under which the owner's collection held the renamed element
\* before the last update_name.
OldKeys ==
    LET e == last.element
        before == IF kind[e] = "type" THEN last.pre_types[last.pre_parent[e]]
                  ELSE last.pre_executables[last.pre_parent[e]]
    IN  {k \in DOMAIN before : before[k] = e}

\* C15: update_name(new) with new different from the current name leaves no
\* entry for the element under its old key, leaves the element under the new
\* key (as given or in lower case), and sets the element's name to new.
C15_RenameMovesEntry ==
    (last.op = "update_name" /\ last.new # last.pre_name[last.element]) =>
        LET e == last.element
            now == IF kind[e] = "type" THEN types[parent[e]] ELSE executables[parent[e]]
            newkeys == {last.new, Lower(last.new)} \cap DOMAIN now
        IN  /\ \A k \in OldKeys \ {last.new, Lower(last.new)} : k \notin DOMAIN now
            /\ \E k \in newkeys : now[k] = e
            /\ name[e] = last.new

\* C16: find_section answers "docstring" inside [docstart, docend] of an
\* element that has a docstring, "body" inside [start, end], "signature"
\* after the docstring and before start within the 8-character window, and
\* None everywhere else.
C16_SectionsPartitionOffsets ==
    last.op = "find_section" =>
        LET o == offsets[last.element]
            x == last.charindex
        IN  last.ret =
              IF o.docstart > 0 /\ o.docstart <= x /\ x <= o.docend THEN "docstring"
              ELSE IF o.start <= x /\ x <= o.end THEN "body"
              ELSE IF x > o.docend /\ x < o.start /\ o.start - x <= SignatureWindow
              THEN "signature"
              ELSE None

(***************************************************************************)
(* The module text: update_refstring, charindex, linenum, contains_index   *)
(***************************************************************************)
\* Module.update_refstring(string): the text is replaced, the line list and
\* the cached boundary are dropped, then the boundary is asked for (which
\* indexes a text that is not empty) and its offset is computed; an
\* exception of either read leaves what was assigned before it.
UpdateRefstring(string) ==
    LET ix == IF string # <<>>
              THEN [lines |-> string, chars |-> Totals(string)]
              ELSE [lines |-> <<>>, chars |-> _chars]
        cx == ContainsIndexOn(ix, {})
        ci == CharindexOn(ix, cx.value, 0)
    IN  /\ refstring' = string
        /\ changed' = TRUE
        /\ _lines' = ix.lines
        /\ _chars' = ix.chars
        /\ _contains_index' = IF cx.raised THEN {} ELSE {cx.value}
        /\ last' = [op |-> "update_refstring", string |-> string,
                    raised |-> cx.raised \/ ci.raised]
        /\ UNCHANGED <<treeVars, offsets, docVars, callVars, sideVars, modifiers, cacheVars>>

\* Module.charindex(line, column)
Charindex(line, column) ==
    LET ix == Indexed
        ci == CharindexOn(ix, line, column)
    IN  /\ _lines' = ix.lines
        /\ _chars' = ix.chars
        /\ last' = [op |-> "charindex", line |-> line, column |-> column,
                    raised |-> ci.raised, ret |-> ci.value]
        /\ UNCHANGED <<treeVars, offsets, docVars, callVars, sideVars, modifiers, cacheVars, textVars,
                       _contains_index>>

\* Module.linenum(index)
Linenum(index) ==
    LET ix == Indexed
    IN  /\ _lines' = ix.lines
        /\ _chars' = ix.chars
        /\ last' = [op |-> "linenum", index |-> index, ret |-> LinenumOn(ix, index)]
        /\ UNCHANGED <<treeVars, offsets, docVars, callVars, sideVars, modifiers, cacheVars, textVars,
                       _contains_index>>

\* Reading the property Module.contains_index.
ContainsIndex ==
    LET ix == IF _contains_index = {} THEN Indexed ELSE [lines |-> _lines, chars |-> _chars]
        cx == ContainsIndexOn(ix, _contains_index)
    IN  /\ _lines' = ix.lines
        /\ _chars' = ix.chars
        /\ _contains_index' = IF cx.raised THEN _contains_index ELSE {cx.value}
        /\ last' = [op |-> "contains_index", raised |-> cx.raised, ret |-> cx.value,
                    cached |-> _contains_index # {}]
        /\ UNCHANGED <<treeVars, offsets, docVars, callVars, sideVars, modifiers, cacheVars, textVars>>

(***************************************************************************)
(* The text specification: a module with no type or with the type T on    *)
(* lines 1-3, whose text is one of four: the fourteen lines of the shift  *)
(* specification, the same without the keyword, six lines without the     *)
(* keyword, three short lines with the keyword on the first; then         *)
(* update_refstring calls and reads.                                       *)
(***************************************************************************)
\* Number of calls explored from an initial state of the text specification.
MaxTextOps == 3

PlainText == [i \in 1..Len(ShiftText) |-> Line(ShiftText[i].len, FALSE)]
ShortText == << Line(8, FALSE), Line(6, FALSE), Line(4, FALSE), Line(4, FALSE),
                Line(4, FALSE), Line(10, FALSE) >>
HeadText == << Line(8, TRUE), Line(3, FALSE), Line(0, FALSE) >>
Texts == {ShiftText, PlainText, ShortText, HeadText}

TextIds == {"M", "T"}

InitText ==
    /\ name = [e \in TextIds |-> IF e = "M" THEN "m" ELSE "t"]
    /\ kind = [e \in TextIds |-> IF e = "M" THEN "module" ELSE "type"]
    /\ parent = [e \in TextIds |-> IF e = "M" THEN None ELSE "M"]
    /\ offsets = [e \in TextIds |->
                    IF e = "M" THEN Span(ShiftText, 0, 13) ELSE Span(ShiftText, 1, 3)]
    /\ \E declared \in BOOLEAN :
         types = [o \in TextIds |->
                    IF o = "M" /\ declared THEN [k \in {"t"} |-> "T"] ELSE EmptyDict]
    /\ executables = [o \in TextIds |-> EmptyDict]
    /\ members = [o \in TextIds |-> EmptyDict]
    /\ QuietDocs
    /\ QuietCalls
    /\ SideInit
    /\ refstring \in Texts
    /\ _lines = <<>>
    /\ _chars = <<>>
    /\ _contains_index = {}
    /\ changed = FALSE
    /\ last = NoCall
    /\ nops = 0

TextStep == nops < MaxTextOps /\ nops' = nops + 1

\* The offsets linenum is asked about: the first two and the last character
\* of every line of the text, and the one after the text.
Probes(text) ==
    UNION {{LineStart(text, l), LineStart(text, l) + 1, LineEnd(text, l)} :
              l \in 0..(Len(text) - 1)} \cup {SumLens(text, Len(text))}

Retext == TextStep /\ \E string \in Texts \cup {<<>>} : UpdateRefstring(string)
AskCharindex ==
    TextStep /\ \E line \in 0..Len(refstring), column \in Columns : Charindex(line, column)
AskLinenum == TextStep /\ \E index \in Probes(refstring) : Linenum(index)
AskContains == TextStep /\ ContainsIndex

NextText == Retext \/ AskCharindex \/ AskLinenum \/ AskContains

SpecText == InitText /\ [][NextText]_vars

\* The lines of a text as str.split gives them: the empty text has one
\* empty line.
SplitLines(text) == IF text = <<>> THEN <<Line(0, FALSE)>> ELSE text

\* C17: charindex(line, column) is the offset at which the line starts in
\* the current refstring plus column, for every line of the text.
C17_CharindexIsLineStart ==
    ( /\ last.op = "charindex"
      /\ last.line \in 0..(Len(SplitLines(refstring)) - 1) )
    => /\ ~last.raised
       /\ last.ret = LineStart(SplitLines(refstring), last.line) + last.column

\* The line that holds an offset of the text, terminators included.
LineOf(text, index) ==
    CHOOSE l \in 0..(Len(text) - 1) :
        /\ LineStart(text, l) <= index
        /\ (l = Len(text) - 1 \/ index < LineStart(text, l + 1))

\* C18: linenum(offset) answers the line that holds the offset and the
\* distance of the offset from the start of that line, for every offset of
\* the text, and [-1, -1] when the text is empty.
C18_LinenumInvertsCharindex ==
    last.op = "linenum" =>
        IF refstring = <<>>
        THEN last.ret = [list |-> TRUE, line |-> -1, offset |-> -1]
        ELSE (last.index >= 0 /\ last.index <= LineEnd(refstring, Len(refstring) - 1))
             => /\ last.ret.list
                /\ last.ret.line = LineOf(refstring, last.index)
                /\ last.ret.offset = last.index - LineStart(refstring, last.ret.line)

\* C19: on a text without the keyword contains_index does not raise and
\* answers the index of the last line, with or without types in the module.
C19_NoBoundaryMeansLastLine ==
    ( /\ last.op = "contains_index"
      /\ ~last.cached
      /\ refstring # <<>>
      /\ \A i \in 1..Len(refstring) : ~refstring[i].kw )
    => /\ ~last.raised
       /\ last.ret = Len(refstring) - 1

(***************************************************************************)
(* The reload specification: a saved module M with the type T (and its    *)
(* type-bound procedure B), the subroutine S (with its parameter P and    *)
(* its dependency edge D) and the member V; every element has a group g;  *)
(* the docstring lists of M, T and S hold nothing, a DocElement of the    *)
(* group g held as the DocGroup, one held as the name, or one of a group  *)
(* h the element does not have.  Then reloads and reads.                   *)
(***************************************************************************)
ReloadIds == {Registry, "M", "T", "B", "S", "P", "D", "V"}

GroupedDoc(g) ==
    [doctype |-> "summary", attr_name |-> None, contents |-> "one",
     group |-> g, _parent_name |-> "absent"]
DocLists ==
    { <<>>, <<GroupedDoc(GroupObject("g"))>>, <<GroupedDoc(GroupName("g"))>>,
      <<GroupedDoc(GroupObject("h"))>> }

InitReload ==
    /\ name = [e \in ReloadIds |->
                 CASE e = Registry -> "parser" [] e = "M" -> "m" [] e = "T" -> "t"
                   [] e = "B" -> "b" [] e = "S" -> "s" [] e = "P" -> "x"
                   [] e = "D" -> "foo" [] e = "V" -> "v"]
    /\ kind = [e \in ReloadIds |->
                 CASE e = Registry -> "registry" [] e = "M" -> "module"
                   [] e = "T" -> "type" [] e = "B" -> "typeexec" [] e = "S" -> "exec"
                   [] e = "P" -> "member" [] e = "D" -> "dependency" [] e = "V" -> "member"]
    /\ parent = [e \in ReloadIds |->
                   CASE e = Registry -> None [] e = "M" -> Registry
                     [] e = "B" -> "T" [] e \in {"P", "D"} -> "S" [] OTHER -> "M"]
    /\ offsets = [e \in ReloadIds |->
                    CASE e = "M" -> At(0, 120) [] e = "T" -> At(10, 30)
                      [] e = "B" -> At(15, 20) [] e = "V" -> At(35, 40)
                      [] e = "S" -> At(50, 100) [] OTHER -> At(0, 0)]
    /\ types = [o \in ReloadIds |-> IF o = "M" THEN [k \in {"t"} |-> "T"] ELSE EmptyDict]
    /\ executables = [o \in ReloadIds |->
                        CASE o = "M" -> [k \in {"s"} |-> "S"]
                          [] o = "T" -> [k \in {"b"} |-> "B"]
                          [] OTHER -> EmptyDict]
    /\ members = [o \in ReloadIds |-> IF o = "M" THEN [k \in {"v"} |-> "V"] ELSE EmptyDict]
    /\ _full_name = [e \in ReloadIds |-> None]
    /\ _module = [e \in ReloadIds |-> None]
    /\ \E lists \in [{"M", "T", "S"} -> DocLists] :
         docstring = [e \in ReloadIds |-> IF e \in DOMAIN lists THEN lists[e] ELSE <<>>]
    /\ groups = [e \in ReloadIds |->
                   IF e = Registry THEN EmptyDict
                   ELSE [g \in {"g"} |-> [name |-> g, purpose |-> "testing"]]]
    /\ _tests = [e \in ReloadIds |-> [cached |-> FALSE, value |-> <<>>]]
    /\ written = [e \in ReloadIds |-> <<>>]
    /\ dependencies = [e \in ReloadIds |-> IF e = "S" THEN <<"D">> ELSE <<>>]
    /\ _assignments = [e \in ReloadIds |-> <<>>]
    /\ walk = NoWalk
    /\ modules = [k \in {"m"} |-> "M"]
    /\ incomplete = [e \in ReloadIds |-> FALSE]
    /\ paramorder = [e \in ReloadIds |-> IF e = "S" THEN <<"x">> ELSE <<>>]
    /\ _parameters = [e \in ReloadIds |->
                        IF e = "S" THEN [k \in {"x"} |-> "P"] ELSE EmptyDict]
    /\ modifiers = [e \in ReloadIds |-> <<>>]
    /\ CacheInit
    /\ QuietText
    /\ last = NoCall
    /\ nops = 0

NextReload == Reload \/ TestsRead \/ ModuleRead

SpecReload == InitReload /\ [][NextReload]_vars

\* C20: after a reload the module's parent is the registry, every object
\* reachable from the module has as parent an object whose collection holds
\* it, every DocElement, those of the module included, whose stored group
\* name is one of its element's groups has that DocGroup as its group, and
\* no offset has changed.
C20_UnpickleRestoresLinks ==
    last.op = "load_module" =>
        /\ parent["M"] = Registry
        /\ \A e \in ReachedFrom({"M"}) \ {"M"} : parent[e] \in Holders(e)
        /\ \A e \in ReachedFrom({"M"}) :
              \A i \in 1..Len(docstring[e]) :
                  LET doc == docstring[e][i]
                  IN  (doc._parent_name # None /\ doc._parent_name \in DOMAIN groups[e])
                         => doc.group = GroupObject(doc._parent_name)
        /\ offsets = last.pre_offsets

(***************************************************************************)
(* The tests accessor against the docstring list                           *)
(***************************************************************************)
\* The groups of e whose purpose is "testing" in any case.
TestingGroups(e) ==
    {g \in DOMAIN groups[e] :
        groups[e][g].purpose # "absent" /\ Lower(groups[e][g].purpose) = "testing"}

\* A DocElement belongs to a group when its group is that group's name or
\* the DocGroup object itself.
BelongsTo(d, e, g) == d.group.held \in {"str", "obj"} /\ d.group.name = groups[e][g].name

\* C21: tests returns exactly the docstring entries of the element that
\* belong to a group with purpose "testing" in any case, the group held as
\* a name or as the DocGroup object, also when overwrite_docs added or
\* replaced an entry after an earlier read of tests.
C21_TestsAreTestingEntries ==
    last.op = "tests" =>
        Range(last.ret) =
            {d \in Range(docstring[last.element]) :
                \E g \in TestingGroups(last.element) : BelongsTo(d, last.element, g)}

\* C22: after any call of update_refstring or of update_elements the
\* module's changed flag is true.
C22_EditsMarkChanged ==
    last.op \in {"update_refstring", "update_elements"} => changed

(***************************************************************************)
(* The file system cache: Serializer._index, load_module, save_module and  *)
(* clear_cache over the index.json file of the cache directory.            *)
(***************************************************************************)
\* Serializer.version
version == 10

\* data.get('version', 0) of a parsed index file.
VersionOf(file) == IF file.version = {} THEN 0 ELSE CHOOSE v \in file.version : TRUE

\* Serializer.clear_cache: serialize.py binds no name shutil, so evaluating
\* shutil.rmtree raises NameError before anything is removed.
ClearCacheRaises == TRUE

\* The _index property read with the cached value cur: whether it raises,
\* and the value __index holds afterwards.
IndexRead(cur) ==
    IF cur # {} THEN [raised |-> FALSE, index |-> cur]
    ELSE IF index_json.state \in {"missing", "corrupt"}
         THEN [raised |-> FALSE, index |-> {EmptyDict}]
    ELSE IF VersionOf(index_json) # version
         THEN IF ClearCacheRaises THEN [raised |-> TRUE, index |-> {}]
              ELSE [raised |-> FALSE, index |-> {EmptyDict}]
    ELSE [raised |-> FALSE, index |-> {index_json.index}]

\* Serializer.load_module(path, changed_time, parser); changed_time is {}
\* for None.  Only KeyError is caught around the index lookup.
SerializerLoad(path, changed_time) ==
    LET r == IndexRead(__index)
        files == CHOOSE d \in r.index : TRUE
        call(raised, ret) ==
            [op |-> "cache_load", path |-> path, changed_time |-> changed_time,
             raised |-> raised, ret |-> ret, pre_index |-> __index]
        quiet == UNCHANGED <<treeVars, offsets, docVars, callVars, sideVars, modifiers,
                             textVars, indexVars>>
    IN  /\ __index' = r.index
        /\ UNCHANGED index_json
        /\ IF r.raised THEN last' = call(TRUE, None) /\ quiet
           ELSE IF path \notin DOMAIN files
                   \/ (changed_time # {} /\ \A t \in changed_time : files[path] < t)
           THEN last' = call(FALSE, None) /\ quiet
           ELSE last' = call(FALSE, "M") /\ UnpickleModule

\* Serializer.save_module(path, module), change_time the module's: the
\* index is read afresh, the entry set and the index file rewritten.
SaveModule(path, change_time) ==
    LET r == IndexRead({})
        files == CHOOSE d \in r.index : TRUE
    IN  /\ __index' = {}
        /\ index_json' = IF r.raised THEN index_json
                         ELSE [state |-> "ok", version |-> {version},
                               index |-> DictSet(files, path, change_time)]
        /\ last' = [op |-> "save_module", path |-> path, change_time |-> change_time,
                    raised |-> r.raised, pre_index |-> __index]
        /\ UNCHANGED <<treeVars, offsets, docVars, callVars, sideVars, modifiers,
                       textVars, indexVars>>

\* Serializer.clear_cache called directly.
ClearCache ==
    /\ last' = [op |-> "clear_cache", raised |-> ClearCacheRaises, pre_index |-> __index]
    /\ index_json' = IF ClearCacheRaises THEN index_json ELSE NoIndexFile
    /\ UNCHANGED <<treeVars, offsets, docVars, callVars, sideVars, modifiers,
                   textVars, indexVars, __index>>

\* Number of serializer calls explored from an initial state.
MaxCacheOps == 3

Paths == {"a.f90", "b.f90"}
Times == {1, 2}
\* Versions an index file may record: none, an older one, the current one.
Versions == {{}, {version - 1}, {version}}

\* The index files a cache directory may hold when the Serializer is built:
\* none, one that is not JSON, or one written by some version of fortpy.
IndexFiles ==
    {NoIndexFile, [state |-> "corrupt", version |-> {}, index |-> EmptyDict]}
    \cup {[state |-> "ok", version |-> v, index |-> d] :
             v \in Versions, d \in UNION {[S -> Times] : S \in SUBSET Paths}}

InitCache ==
    /\ name = [e \in DocIds |->
                 CASE e = Registry -> "parser" [] e = "M" -> "m" [] e = "T" -> "t"
                   [] e = "S" -> "s"]
    /\ kind = [e \in DocIds |->
                 CASE e = Registry -> "registry" [] e = "M" -> "module"
                   [] e = "T" -> "type" [] e = "S" -> "exec"]
    /\ parent = [e \in DocIds |->
                   IF e = Registry THEN None ELSE IF e = "M" THEN Registry ELSE "M"]
    /\ offsets = [e \in DocIds |-> At(0, 0)]
    /\ types = [o \in DocIds |-> IF o = "M" THEN [k \in {"t"} |-> "T"] ELSE EmptyDict]
    /\ executables = [o \in DocIds |-> IF o = "M" THEN [k \in {"s"} |-> "S"] ELSE EmptyDict]
    /\ members = [o \in DocIds |-> EmptyDict]
    /\ QuietDocs
    /\ QuietCalls
    /\ modules = [k \in {"m"} |-> "M"]
    /\ incomplete = [e \in DocIds |-> FALSE]
    /\ paramorder = [e \in DocIds |-> <<>>]
    /\ _parameters = [e \in DocIds |-> EmptyDict]
    /\ modifiers = [e \in DocIds |-> <<>>]
    /\ QuietText
    /\ __index = {}
    /\ index_json \in IndexFiles
    /\ last = NoCall
    /\ nops = 0

CacheStep == nops < MaxCacheOps /\ nops' = nops + 1

CacheLoad ==
    CacheStep /\ \E path \in Paths, t \in {{}} \cup {{x} : x \in Times} :
                    SerializerLoad(path, t)
CacheSave == CacheStep /\ \E path \in Paths, t \in Times : SaveModule(path, t)
CacheClear == CacheStep /\ ClearCache

NextCache == CacheLoad \/ CacheSave \/ CacheClear

SpecCache == InitCache /\ [][NextCache]_vars

\* C23: when the index file records a version other than Serializer.version,
\* or none, the cache counts as absent: load_module raises nothing, returns
\* None for every path, and the index reads as the empty dict.
C23_StaleVersionMeansNoCache ==
    (last.op = "cache_load" /\ last.pre_index = {} /\ index_json.state = "ok"
         /\ VersionOf(index_json) # version)
        => ~last.raised /\ last.ret = None /\ __index = {EmptyDict}

(***************************************************************************)
(* Further properties of update_elements                                   *)
(***************************************************************************)
\* The collection update_elements walks with _update_char_check: the types
\* for an edit above the boundary line, the executables otherwise.
Walked ==
    IF last.line < last.icontains THEN Range(types["M"]) ELSE Range(executables["M"])

\* All four offsets moved by n.
MovedBy(o, n) ==
    [start |-> o.start + n, end |-> o.end + n,
     docstart |-> o.docstart + n, docend |-> o.docend + n]

\* The edit lies in the docstring window of the offsets o.
InDocWindow(o) == o.docstart <= last.target /\ o.docend >= last.target - last.docdelta

\* C24: in update_elements with docdelta # 0, a walked type or executable
\* whose docstring window holds the target (docstart <= target and docend >=
\* target - docdelta) is shifted by charcount, and no element moves by
\* anything but 0 or charcount: each is shifted at most once per call.
C24_DocWindowShiftsOnce ==
    (Updated /\ last.docdelta # 0) =>
        /\ \A e \in Walked :
              InDocWindow(last.pre[e]) => offsets[e] = MovedBy(last.pre[e], last.charcount)
        /\ \A e \in DOMAIN offsets :
              \A f \in {"start", "end", "docstart", "docend"} :
                  offsets[e][f] - last.pre[e][f] \in {0, last.charcount}

(***************************************************************************)
(* The editing specification: member V on line 1, type T on lines 3-5      *)
(* under a docstring on line 2, the boundary on line 6, subroutine S on    *)
(* lines 8-9 under a docstring on line 7 and function F, written "B" in    *)
(* the source (key "b"), on lines 10-12 without docstring; then renames of *)
(* the executables through update_name and edits through update_elements.  *)
(***************************************************************************)
\* Number of calls explored from the initial state of the editing specification.
MaxEditOps == 2

InitEdit ==
    /\ name = [e \in RichIds |->
                 CASE e = "M" -> "m" [] e = "V" -> "v" [] e = "T" -> "t"
                   [] e = "S" -> "s" [] e = "F" -> "B"]
    /\ kind = [e \in RichIds |->
                 CASE e = "M" -> "module" [] e = "V" -> "member" [] e = "T" -> "type"
                   [] e = "S" -> "exec" [] e = "F" -> "exec"]
    /\ parent = [e \in RichIds |-> IF e = "M" THEN None ELSE "M"]
    /\ offsets = [e \in RichIds |->
                    CASE e = "M" -> Span(ShiftText, 0, 13)
                      [] e = "V" -> Span(ShiftText, 1, 1)
                      [] e = "T" -> DocSpan(ShiftText, 2, 3, 5)
                      [] e = "S" -> DocSpan(ShiftText, 7, 8, 9)
                      [] e = "F" -> Span(ShiftText, 10, 12)]
    /\ types = [o \in RichIds |-> IF o = "M" THEN [k \in {"t"} |-> "T"] ELSE EmptyDict]
    /\ executables = [o \in RichIds |->
                        IF o = "M" THEN [k \in {"s", "b"} |-> IF k = "s" THEN "S" ELSE "F"]
                        ELSE EmptyDict]
    /\ members = [o \in RichIds |-> IF o = "M" THEN [k \in {"v"} |-> "V"] ELSE EmptyDict]
    /\ dependencies = [e \in RichIds |-> <<>>]
    /\ _assignments = [e \in RichIds |-> <<>>]
    /\ walk = NoWalk
    /\ SideInit
    /\ ShiftFrame

EditStep == nops < MaxEditOps /\ nops' = nops + 1

EditRename == EditStep /\ \E e \in {"S", "F"}, new \in {"d", "B"} : UpdateName(e, new)
EditShift ==
    /\ EditStep
    /\ \E line \in 0..(Len(refstring) - 1), column \in Columns,
          charcount \in {-MaxShift, 0, MaxShift}, docdelta \in DocDeltas :
          UpdateElements(line, column, charcount, docdelta)

NextEdit == EditRename \/ EditShift

SpecEdit == InitEdit /\ [][NextEdit]_vars

\* C25: in one pass of update_embedded an element is only moved into a type
\* or executable that is in the module's top-level collections at that
\* moment, and never into an element the same pass re-parented earlier.
C25_OneLevelOfEmbedding ==
    last.op = "update_embedded" =>
        \A j \in DOMAIN last.moved :
            /\ last.moved[j].into \in last.moved[j].top
            /\ \A i \in 1..(j - 1) : last.moved[j].into # last.moved[i].element

RemoveFirstEmpty(mods) ==
    LET i == Min({k \in 1..Len(mods) : mods[k] = ""})
    IN  SubSeq(mods, 1, i - 1) \o SubSeq(mods, i + 1, Len(mods))

\* CodeElement.clean_mods on a list.
CleanMods(mods) == IF InList("", mods) THEN RemoveFirstEmpty(mods) ELSE mods

\* The modifiers a constructor leaves: [] for None ({}), else the list cleaned.
ConstructedMods(given) ==
    IF given = {} THEN <<>> ELSE CleanMods(CHOOSE m \in given : TRUE)

\* Function.update and Subroutine.update: update_name, then the modifiers
\* list is stored as handed over; a raise in update_name ends the call.
Update(e, new, mods) ==
    LET r == UpdateNameOutcome(e, new)
    IN  /\ types' = r.types
        /\ executables' = r.executables
        /\ name' = r.name
        /\ modifiers' = IF r.raised THEN modifiers ELSE [modifiers EXCEPT ![e] = mods]
        /\ last' = [op |-> "update", element |-> e, new |-> new, modifiers |-> mods,
                    raised |-> r.raised, pre_modifiers |-> modifiers]
        /\ UNCHANGED <<parent, kind, members, _full_name, _module, offsets,
                       docVars, callVars, sideVars, cacheVars, textVars, indexVars>>

\* Number of update calls explored from an initial state.
MaxModOps == 2
\* Longest modifier list handed to a constructor or to update.
MaxMods == 2

ModWords == {"", "pure", "recursive"}
ModLists == UNION {[1..n -> ModWords] : n \in 0..MaxMods}

ModIds == {"M", "S", "F"}

\* Module M with subroutine S and function F, each built with any list of
\* modifiers or with None.
InitMods ==
    /\ name = [e \in ModIds |-> CASE e = "M" -> "m" [] e = "S" -> "s" [] e = "F" -> "f"]
    /\ kind = [e \in ModIds |-> IF e = "M" THEN "module" ELSE "exec"]
    /\ parent = [e \in ModIds |-> IF e = "M" THEN None ELSE "M"]
    /\ offsets = [e \in ModIds |-> At(0, 0)]
    /\ types = [o \in ModIds |-> EmptyDict]
    /\ executables = [o \in ModIds |->
                        IF o = "M" THEN [k \in {"s", "f"} |-> IF k = "s" THEN "S" ELSE "F"]
                        ELSE EmptyDict]
    /\ members = [o \in ModIds |-> EmptyDict]
    /\ QuietDocs
    /\ QuietCalls
    /\ modules = [k \in {"m"} |-> "M"]
    /\ incomplete = [e \in ModIds |-> FALSE]
    /\ paramorder = [e \in ModIds |-> <<>>]
    /\ _parameters = [e \in ModIds |-> EmptyDict]
    /\ \E given \in [{"S", "F"} -> {{}} \cup {{m} : m \in ModLists}] :
          modifiers = [e \in ModIds |->
                         IF e = "M" THEN <<>> ELSE ConstructedMods(given[e])]
    /\ CacheInit
    /\ QuietText
    /\ last = NoCall
    /\ nops = 0

Modify ==
    /\ nops < MaxModOps
    /\ nops' = nops + 1
    /\ \E e \in {"S", "F"}, new \in {"s", "f", "d"}, mods \in ModLists : Update(e, new, mods)

NextMods == Modify

SpecMods == InitMods /\ [][NextMods]_vars

\* C27: no element's modifiers contain the empty string, after construction
\* with any modifier list and after any later update.
C27_NoEmptyModifier ==
    \A e \in DOMAIN modifiers : ~InList("", modifiers[e])

\* Where an element is held: the owner, the collection and the key.
Holdings(e) ==
    UNION {{<<o, "types", key>> : key \in KeysOf(types[o], e)} : o \in DOMAIN types}
    \cup UNION {{<<o, "executables", key>> : key \in KeysOf(executables[o], e)} :
                   o \in DOMAIN executables}

\* C28: after any sequence of update_embedded and update_name calls every
\* type and executable is held in exactly one collection under exactly one
\* key, and its parent is the owner of that collection.
C28_OneHolderIsParent ==
    \A e \in {x \in DOMAIN kind : kind[x] \in {"type", "exec"}} :
        /\ Cardinality(Holdings(e)) = 1
        /\ \A h \in Holdings(e) : h[1] = parent[e]

\* _element_charfix moves docstart and docend alike, so the elements built
\* without a docstring (docstart = docend = 0) are those whose two docstring
\* offsets are equal.
Docless(o) == o.docstart = o.docend

\* C29: a type or executable built with docstart = docend = 0 keeps its
\* effective start (absstart) equal to its start after any sequence of
\* update_elements calls, and a call whose target lies before its start
\* shifts it.
C29_DoclessFollowsStart ==
    \A e \in Range(types["M"]) \cup Range(executables["M"]) :
        Docless(offsets[e]) =>
            /\ AbsStart(e) = offsets[e].start
            /\ (Updated /\ e \in Walked /\ last.pre[e].start > last.target)
                  => offsets[e] = MovedBy(last.pre[e], last.charcount)

\* C30: update_elements keeps the layout of the module's elements: one that
\* lay entirely before another still does, for positive and negative
\* charcount, and every element keeps its lengths end - start and
\* docend - docstart.
C30_LayoutPreserved ==
    Updated =>
        /\ \A a, b \in TopLevel :
              last.pre[a].end <= last.pre[b].start => offsets[a].end <= offsets[b].start
        /\ \A e \in TopLevel :
              /\ offsets[e].end - offsets[e].start = last.pre[e].end - last.pre[e].start
              /\ offsets[e].docend - offsets[e].docstart
                    = last.pre[e].docend - last.pre[e].docstart

====
